---- MODULE Spec2Model ----
(***************************************************************************)
(* Verification model of the acceleration-structure subsystem of gfx-hal:  *)
(*   - the bit-packed Instance record (hal/src/acceleration_structure.rs), *)
(*   - the replace_bits primitive behind its setters,                      *)
(*   - the ray-tracing example (examples/ray-tracing/main.rs), which       *)
(*     drives the size-query / build / compact protocol.                   *)
(* u32 values are vectors of 32 bits, so the bitwise operators and the     *)
(* shifts of the source keep their exact 32-bit behaviour.                 *)
(***************************************************************************)
EXTENDS Integers, Sequences, FiniteSets, TLC

VARIABLES
    inst,       \* the Instance under test (acceleration_structure.rs:280)
    call,       \* the last Instance operation: [op, arg, addr, outcome]
    hist,       \* the last accepted argument of each setter, and whether all were < 2^24
    rb,         \* replace_bits under test: [destination, new_bits, new_bits_mask, out, done]
    pc,         \* examples/ray-tracing main: the statement to execute next
    limits,     \* adapter.physical_device.limits()
    locals,     \* the local variables of main
    buffers,    \* the (buffer, memory) pairs created so far, in creation order
    accels,     \* the acceleration structures of the device, by handle
    cmds,       \* the command buffers allocated so far: recorded commands and state
    log,        \* every device, queue and command-buffer call made so far, in order
    api,        \* the last call made at the API boundary and its outcome
    d3d,        \* backend/dx11 copy_texture_to_buffer: position, inputs and D3D11 calls made
    com,        \* backend/dx11 ComPtr: the COM objects, the ComPtrs alive and the last call
    upd,        \* backend/dx11 update_buffer / update_texture: position, inputs and calls made
    cm          \* two Instance setter calls applied to one Instance in both orders

instVars == <<inst, call, hist>>

exVars == <<pc, limits, locals, buffers, accels, cmds, log>>

dxVars == <<com, upd, cm>>

otherVars == <<api, d3d, dxVars>>

vars == <<inst, call, hist, rb, pc, limits, locals, buffers, accels, cmds, log, api, d3d,
          com, upd, cm>>

\* No call has been made at the API boundary.
ApiIdle ==
    [op |-> "none", backend |-> "none", desc |-> "none", counts |-> << >>, size |-> 0,
     outcome |-> "none", result |-> "none"]

\* copy_texture_to_buffer has not been called.
D3dIdle ==
    [pc |-> "idle", src |-> "none", calls |-> << >>, errors |-> << >>, held |-> << >>,
     mapped |-> "none", data |-> << >>, writes |-> << >>,
     bytes_read |-> 0, failure |-> "none"]

\* No COM object exists and no ComPtr is alive.
ComIdle ==
    [refs |-> [o \in {"foo", "bar"} |-> 0], held |-> << >>, calls |-> << >>,
     last |-> [op |-> "none", hr |-> 0, ptr |-> "null", tag |-> "none"]]

\* update_buffer / update_texture has not been called.
UpdIdle ==
    [pc |-> "idle", fn |-> "none", len |-> 0, offset_bytes |-> 0, offsets |-> 0,
     subres |-> 0, hr |-> 0, pData |-> "null", calls |-> << >>, writes |-> << >>,
     errors |-> << >>]

\* No pair of setter calls is being compared.
CmIdle == [pc |-> "idle", base |-> "none", first |-> "none", second |-> "none",
           ab |-> "none", ba |-> "none", once |-> "none", twice |-> "none"]

OthersIdle == api = ApiIdle /\ d3d = D3dIdle /\ com = ComIdle /\ upd = UpdIdle /\ cm = CmIdle

------------------------------------------------------------------------------
(* 32-bit unsigned integers as bit vectors; bit 0 is the least significant. *)

U32Width == 32

Bit == 0 .. (U32Width - 1)

Pow2(k) == 2 ^ k

\* The u32 whose value is n, for n < 2^31.
FromNat(n) == [i \in Bit |-> IF i < U32Width - 1 THEN (n \div Pow2(i)) % 2 = 1 ELSE FALSE]

RECURSIVE ToNatUpTo(_, _)
ToNatUpTo(v, i) ==
    IF i < 0 THEN 0 ELSE (IF v[i] THEN Pow2(i) ELSE 0) + ToNatUpTo(v, i - 1)

\* The value of v, for v < 2^31.
ToNat(v) == ToNatUpTo(v, U32Width - 2)

BitAnd(a, b) == [i \in Bit |-> a[i] /\ b[i]]

BitOr(a, b) == [i \in Bit |-> a[i] \/ b[i]]

BitXor(a, b) == [i \in Bit |-> a[i] # b[i]]

BitNot(a) == [i \in Bit |-> ~a[i]]

\* a << k on u32: the bits shifted past bit 31 are lost.
Shl(a, k) == [i \in Bit |-> IF i >= k THEN a[i - k] ELSE FALSE]

\* a >> k on u32 (logical shift).
Shr(a, k) == [i \in Bit |-> IF i + k < U32Width THEN a[i + k] ELSE FALSE]

RECURSIVE LtFrom(_, _, _)
LtFrom(a, b, i) ==
    IF i < 0 THEN FALSE
    ELSE IF a[i] = b[i] THEN LtFrom(a, b, i - 1)
    ELSE b[i]

\* a < b on u32: decided by the most significant bit where they differ.
Lt(a, b) == LtFrom(a, b, U32Width - 1)

Zero32 == FromNat(0)

AllOnes32 == BitNot(Zero32)

------------------------------------------------------------------------------
(* acceleration_structure.rs: the Instance record and its setters. *)

\* A wrong mask constant, 0xFFFF0000: the 24-bit field loses its low byte.
TOP_24_MASK_16 == [i \in Bit |-> i >= 16]

\* 0xFFFFFF00
TOP_24_MASK == [i \in Bit |-> i >= 8]

\* 0xFF
BOTTOM_8_MASK == FromNat(255)

identity == << <<1, 0, 0, 0>>, <<0, 1, 0, 0>>, <<0, 0, 1, 0>> >>

\* A constructor that zero-initialises the whole record.
Instance_new_zeroed(blas) ==
    [ transform |-> << <<0, 0, 0, 0>>, <<0, 0, 0, 0>>, <<0, 0, 0, 0>> >>,
      instance_custom_index_24_and_mask_8 |-> Zero32,
      instance_shader_binding_table_record_offset_24_and_flags_8 |-> Zero32,
      acceleration_structure_reference |-> 0 ]

Instance_new(blas) ==
    [ transform |-> identity,
      instance_custom_index_24_and_mask_8 |-> Zero32,
      instance_shader_binding_table_record_offset_24_and_flags_8 |-> Zero32,
      acceleration_structure_reference |-> blas ]

\* 2 << 24
TwoShl24 == Shl(FromNat(2), 24)

\* The check against 1 << 24.
fits_in_24_bits_strict(n) == Lt(n, Shl(FromNat(1), 24))

\* n < 2 << 24
fits_in_24_bits(n) == Lt(n, TwoShl24)

\* replace_bits without clearing the old bits under the mask.
replace_bits_or(destination, new_bits, new_bits_mask) ==
    BitOr(destination, BitAnd(new_bits, new_bits_mask))

\* replace_bits that forgets the mask: destination ^ (destination ^ new_bits).
replace_bits_unmasked(destination, new_bits, new_bits_mask) ==
    BitXor(destination, BitXor(destination, new_bits))

replace_bits(destination, new_bits, new_bits_mask) ==
    BitXor(destination, BitAnd(BitXor(destination, new_bits), new_bits_mask))

\* set_instance_custom_index that forgets the shift into the top 24 bits.
set_instance_custom_index_unshifted(self, instance_custom_index) ==
    IF ~fits_in_24_bits(instance_custom_index)
    THEN [panicked |-> TRUE, self |-> self]
    ELSE [panicked |-> FALSE,
          self |-> [self EXCEPT !.instance_custom_index_24_and_mask_8 =
                        replace_bits(@, instance_custom_index, TOP_24_MASK)]]

set_instance_custom_index(self, instance_custom_index) ==
    IF ~fits_in_24_bits(instance_custom_index)
    THEN [panicked |-> TRUE, self |-> self]
    ELSE [panicked |-> FALSE,
          self |-> [self EXCEPT !.instance_custom_index_24_and_mask_8 =
                        replace_bits(@, Shl(instance_custom_index, 8), TOP_24_MASK)]]

\* set_mask that writes the mask into the second word.
set_mask_wrong_word(self, mask) ==
    [panicked |-> FALSE,
     self |-> [self EXCEPT !.instance_shader_binding_table_record_offset_24_and_flags_8 =
                   replace_bits(@, FromNat(mask), BOTTOM_8_MASK)]]

\* mask is a u8; `mask as u32` zero-extends it.
set_mask(self, mask) ==
    [panicked |-> FALSE,
     self |-> [self EXCEPT !.instance_custom_index_24_and_mask_8 =
                   replace_bits(@, FromNat(mask), BOTTOM_8_MASK)]]

set_instance_shader_binding_table_record_offset(self, instance_shader_binding_table_record_offset) ==
    IF ~fits_in_24_bits(instance_shader_binding_table_record_offset)
    THEN [panicked |-> TRUE, self |-> self]
    ELSE [panicked |-> FALSE,
          self |-> [self EXCEPT !.instance_shader_binding_table_record_offset_24_and_flags_8 =
                        replace_bits(@, Shl(instance_shader_binding_table_record_offset, 8),
                                     TOP_24_MASK)]]

\* bitflags! InstanceFlags: u8
TRIANGLE_FACING_CULL_DISABLE == 1
TRIANGLE_FRONT_COUNTERCLOCKWISE == 2
FORCE_OPAQUE == 4
FORCE_NO_OPAQUE == 8

InstanceFlagBits ==
    {TRIANGLE_FACING_CULL_DISABLE, TRIANGLE_FRONT_COUNTERCLOCKWISE, FORCE_OPAQUE, FORCE_NO_OPAQUE}

\* An InstanceFlags value is a set of the defined flags.
InstanceFlags == SUBSET InstanceFlagBits

RECURSIVE SumOf(_)
SumOf(S) == IF S = {} THEN 0 ELSE LET x == CHOOSE y \in S : TRUE IN x + SumOf(S \ {x})

\* bits that puts the flags in the high nibble.
bits_high_nibble(flags) == SumOf(flags) * 16

\* InstanceFlags::bits
bits(flags) == SumOf(flags)

\* set_flags that assigns the whole word.
set_flags_whole_word(self, flags) ==
    [panicked |-> FALSE,
     self |-> [self EXCEPT !.instance_shader_binding_table_record_offset_24_and_flags_8 =
                   FromNat(bits(flags))]]

set_flags(self, flags) ==
    [panicked |-> FALSE,
     self |-> [self EXCEPT !.instance_shader_binding_table_record_offset_24_and_flags_8 =
                   replace_bits(@, FromNat(bits(flags)), BOTTOM_8_MASK)]]

(* impl Debug for Instance: the decode path of the four packed fields. *)

debug_instance_custom_index(self) ==
    Shr(BitAnd(self.instance_custom_index_24_and_mask_8, TOP_24_MASK), 8)

debug_mask(self) == BitAnd(self.instance_custom_index_24_and_mask_8, BOTTOM_8_MASK)

debug_instance_shader_binding_table_record_offset(self) ==
    Shr(BitAnd(self.instance_shader_binding_table_record_offset_24_and_flags_8, TOP_24_MASK), 8)

debug_flags_bits(self) ==
    BitAnd(self.instance_shader_binding_table_record_offset_24_and_flags_8, BOTTOM_8_MASK)

\* InstanceFlags::from_bits(b as u8): None when a bit outside the defined
\* flags is set.
from_bits(b) ==
    LET n == ToNat(b) % 256
    IN IF n >= 16
       THEN [some |-> FALSE, flags |-> {}]
       ELSE [some |-> TRUE, flags |-> {f \in InstanceFlagBits : (n \div f) % 2 = 1}]

\* The "flags" field of the Debug output: from_bits(..).unwrap().
debug_flags(self) ==
    LET r == from_bits(debug_flags_bits(self))
    IN [panicked |-> ~r.some, flags |-> r.flags]

------------------------------------------------------------------------------
(* Inputs of the Instance operations. *)

\* Number of generated 32-bit test patterns, besides the boundary values.
NumSamples == 1

\* A fixed, irregular 32-bit pattern per k.
Sample(k) == [i \in Bit |-> ((i * i + 3 * i * k + 5 * k) % 7) < 3]

Samples == {Sample(k) : k \in 1 .. NumSamples}

Limit24 == FromNat(Pow2(24))

\* u32 arguments of the two 24-bit setters: boundary values around 2^24 and
\* 2^25, u32::MAX, and the generated patterns, raw and cut to 24 bits.
U32Args ==
    {FromNat(n) : n \in {0, 11259375, Pow2(24) - 1, Pow2(24), Pow2(25) - 1, Pow2(25)}}
        \cup {AllOnes32}
        \cup Samples
        \cup {BitAnd(s, FromNat(Pow2(24) - 1)) : s \in Samples}

\* u8 arguments of set_mask.
U8Args == {0, 165, 255}

\* InstanceFlags arguments of set_flags.
FlagArgs ==
    { {}, {FORCE_OPAQUE}, {TRIANGLE_FACING_CULL_DISABLE, FORCE_NO_OPAQUE}, InstanceFlagBits }

\* Device addresses handed to Instance::new.
Addresses == {0, 4096}

NoHist == [custom_index |-> Zero32, mask |-> Zero32, offset |-> Zero32,
           flags |-> Zero32, in_range |-> TRUE]

IdleRb == [destination |-> Zero32, new_bits |-> Zero32, new_bits_mask |-> Zero32,
           out |-> Zero32, done |-> FALSE]

Outcome(r) == IF r.panicked THEN "panic" ELSE "ok"

------------------------------------------------------------------------------
(* Memory layout of the GPU-resident structs (std::mem::size_of). A type is *)
(* a primitive, an array, a #[repr(transparent)] wrapper or a #[repr(C)]    *)
(* struct, whose fields are placed in order, each at the next multiple of   *)
(* its alignment, the size being rounded up to the struct's alignment.      *)

Prim(size) == [kind |-> "prim", size |-> size]

Array(elem, len) == [kind |-> "array", elem |-> elem, len |-> len]

Transparent(inner) == [kind |-> "transparent", inner |-> inner]

ReprC(fields) == [kind |-> "repr_c", fields |-> fields]

F32 == Prim(4)
U16 == Prim(2)
U32 == Prim(4)
U64 == Prim(8)

RoundUp(n, a) == ((n + a - 1) \div a) * a

Max(a, b) == IF a >= b THEN a ELSE b

RECURSIVE AlignOf(_)
RECURSIVE AlignOfFields(_, _)
AlignOfFields(fields, k) ==
    IF k > Len(fields) THEN 1 ELSE Max(AlignOf(fields[k]), AlignOfFields(fields, k + 1))

AlignOf(t) ==
    CASE t.kind = "prim" -> t.size
      [] t.kind = "array" -> AlignOf(t.elem)
      [] t.kind = "transparent" -> AlignOf(t.inner)
      [] t.kind = "repr_c" -> AlignOfFields(t.fields, 1)

RECURSIVE SizeOf(_)
RECURSIVE EndOfFields(_, _)
\* The offset just past field k of a #[repr(C)] struct.
EndOfFields(fields, k) ==
    IF k = 0 THEN 0
    ELSE RoundUp(EndOfFields(fields, k - 1), AlignOf(fields[k])) + SizeOf(fields[k])

SizeOf(t) ==
    CASE t.kind = "prim" -> t.size
      [] t.kind = "array" -> t.len * SizeOf(t.elem)
      [] t.kind = "transparent" -> SizeOf(t.inner)
      [] t.kind = "repr_c" -> RoundUp(EndOfFields(t.fields, Len(t.fields)), AlignOf(t))

\* pub struct TransformMatrix([[f32; 4]; 3]);
TransformMatrix == Transparent(Array(Array(F32, 4), 3))

\* pub struct AabbPositions { min: [f32; 3], max: [f32; 3] }
AabbPositions == ReprC(<<Array(F32, 3), Array(F32, 3)>>)

\* pub struct DeviceAddress(pub u64);
DeviceAddress == Transparent(U64)

\* An Instance with the device address declared before the second word: the
\* 8-byte field then needs 4 bytes of padding in front of it.
Instance_address_first == ReprC(<<TransformMatrix, U32, DeviceAddress, U32>>)

\* pub struct Instance { transform, two u32 words, acceleration_structure_reference }
Instance == ReprC(<<TransformMatrix, U32, U32, DeviceAddress>>)

\* struct Vertex { a_Pos: [f32; 3] } of the example
Vertex == ReprC(<<Array(F32, 3)>>)

------------------------------------------------------------------------------
(* The device of the example. Buffers and memory are those of the mock      *)
(* backend (backend/empty); the acceleration-structure calls, which the     *)
(* mock backend leaves unimplemented, answer as the specification requires. *)

\* Buffer::new(size) of the mock backend
Buffer_new(size) == [size |-> size]

\* Memory::allocate(memory_type, size) of the mock backend
Memory_allocate(memory_type, size) == [memory_type |-> memory_type, size |-> size]

create_buffer(size) == Buffer_new(size)

get_buffer_requirements(buffer) ==
    [size |-> buffer.size, alignment |-> 1, type_mask |-> AllOnes32]

allocate_memory(memory_type, size) == Memory_allocate(memory_type, size)

\* PhysicalDevice::memory_properties().memory_types
memory_types == << {"DEVICE_LOCAL", "CPU_VISIBLE", "COHERENT", "CPU_CACHED"} >>

\* The first memory type (0-based) the buffer may use and the CPU can see;
\* -1 when there is none (position() returns None and unwrap panics).
upload_type_position(buffer_req) ==
    LET ok == {id \in 0 .. (Len(memory_types) - 1) :
                  /\ BitAnd(buffer_req.type_mask, Shl(FromNat(1), id)) # Zero32
                  /\ "CPU_VISIBLE" \in memory_types[id + 1]}
    IN IF ok = {} THEN -1 ELSE CHOOSE id \in ok : \A other \in ok : id <= other

\* Padding that rounds down instead of up.
padded_len_down(buffer_len, non_coherent_alignment) ==
    (buffer_len \div non_coherent_alignment) * non_coherent_alignment

\* ((buffer_len + non_coherent_alignment - 1) / non_coherent_alignment) * non_coherent_alignment
padded_len(buffer_len, non_coherent_alignment) ==
    ((buffer_len + non_coherent_alignment - 1) \div non_coherent_alignment)
        * non_coherent_alignment

NoBuffer == [size |-> 0]

NoMemory == [memory_type |-> 0, size |-> 0]

create_empty_buffer(non_coherent_alignment, size) ==
    LET buffer_len == size
        padded_buffer_len == padded_len(buffer_len, non_coherent_alignment)
        buffer == create_buffer(padded_buffer_len)
        buffer_req == get_buffer_requirements(buffer)
        upload_type == upload_type_position(buffer_req)
    IN IF buffer_len = 0 \/ upload_type < 0
       THEN [panicked |-> TRUE, buffer |-> NoBuffer, memory |-> NoMemory]
       ELSE [panicked |-> FALSE, buffer |-> buffer,
             memory |-> allocate_memory(upload_type, buffer_req.size)]

\* upload_to_buffer: data_len elements of type T.
upload_to_buffer(non_coherent_alignment, data_len, T) ==
    create_empty_buffer(non_coherent_alignment, data_len * SizeOf(T))

\* Number of distinct sizes the device may report.
MaxSizeIndex == 3

SizeAt(k) ==
    CASE k = 1 -> 100
      [] k = 2 -> 256
      [] OTHER -> 256 * (k - 2) + 1

\* Byte sizes the device may report in a size query or a compacted-size query.
DeviceSizes == {SizeAt(k) : k \in 1 .. MaxSizeIndex}

\* Values of limits.non_coherent_atom_size (1 in the mock backend).
Alignments == {1, 64, 256}

\* The mesh loaded by the example: vertex count and index count.
Meshes == {[vertices |-> 8, indices |-> 36]}

NoRequirements ==
    [acceleration_structure_size |-> 0, update_scratch_size |-> 0, build_scratch_size |-> 0]

\* A device that reports update scratch space although ALLOW_UPDATE was not asked for.
SizeRequirementsFor_update_scratch(desc, max_primitive_counts) ==
    IF Len(desc.geometries) = 0
    THEN {NoRequirements}
    ELSE {[acceleration_structure_size |-> a, update_scratch_size |-> u, build_scratch_size |-> b] :
             a \in DeviceSizes, b \in DeviceSizes, u \in DeviceSizes}

\* get_acceleration_structure_build_requirements: the answers a device may
\* give for a geometry description and one maximum primitive count per geometry.
SizeRequirementsFor(desc, max_primitive_counts) ==
    IF Len(desc.geometries) = 0
    THEN {NoRequirements}
    ELSE {[acceleration_structure_size |-> a, update_scratch_size |-> u, build_scratch_size |-> b] :
             a \in DeviceSizes, b \in DeviceSizes,
             u \in IF "ALLOW_UPDATE" \in desc.flags THEN DeviceSizes ELSE {0}}

\* get_acceleration_structure_address: a distinct device address per handle.
get_acceleration_structure_address(handle) == 4096 * handle

\* The compacted sizes a device may report for a built structure.
CompactedSizesFor(accel) == {c \in DeviceSizes \cup {0} : c <= accel.size}

------------------------------------------------------------------------------
(* examples/ray-tracing/main.rs: main as a sequence of statements. *)

\* main reading the compacted size before waiting on the build fence.
MainOrder_read_before_wait ==
    << "upload_vertex_buffer", "upload_index_buffer", "blas_size_query",
       "create_scratch_buffer", "create_accel_struct_bottom_buffer", "create_teapot_blas",
       "blas_create_query_pools", "blas_begin", "blas_record_build", "blas_record_barrier",
       "blas_record_write_compacted_size", "blas_record_write_serialization_size",
       "blas_finish", "blas_submit", "blas_read_compacted_size", "blas_wait_for_fence",
       "blas_read_serialization_size", "create_accel_struct_bottom_buffer_compact",
       "create_teapot_blas_compact", "compact_begin", "compact_record_copy",
       "compact_finish", "compact_submit", "compact_wait_for_fence", "swap_handles",
       "create_instances", "upload_instances_buffer", "tlas_size_query",
       "create_tlas_scratch_buffer", "create_tlas_buffer", "create_tlas",
       "tlas_create_query_pools", "tlas_begin", "tlas_record_build", "tlas_record_barrier",
       "tlas_record_write_compacted_size", "tlas_record_write_serialization_size",
       "tlas_finish", "tlas_submit", "tlas_wait_for_fence", "tlas_read_compacted_size",
       "tlas_read_serialization_size", "write_descriptor_sets", "done" >>

\* main without the barrier after the TLAS build.
MainOrder_no_tlas_barrier ==
    << "upload_vertex_buffer", "upload_index_buffer", "blas_size_query",
       "create_scratch_buffer", "create_accel_struct_bottom_buffer", "create_teapot_blas",
       "blas_create_query_pools", "blas_begin", "blas_record_build", "blas_record_barrier",
       "blas_record_write_compacted_size", "blas_record_write_serialization_size",
       "blas_finish", "blas_submit", "blas_wait_for_fence", "blas_read_compacted_size",
       "blas_read_serialization_size", "create_accel_struct_bottom_buffer_compact",
       "create_teapot_blas_compact", "compact_begin", "compact_record_copy",
       "compact_finish", "compact_submit", "compact_wait_for_fence", "swap_handles",
       "create_instances", "upload_instances_buffer", "tlas_size_query",
       "create_tlas_scratch_buffer", "create_tlas_buffer", "create_tlas",
       "tlas_create_query_pools", "tlas_begin", "tlas_record_build",
       "tlas_record_write_compacted_size",
       "tlas_record_write_serialization_size", "tlas_finish", "tlas_submit",
       "tlas_wait_for_fence", "tlas_read_compacted_size", "tlas_read_serialization_size",
       "write_descriptor_sets", "done" >>

\* main querying the device address before the handles are swapped.
MainOrder_address_before_swap ==
    << "upload_vertex_buffer", "upload_index_buffer", "blas_size_query",
       "create_scratch_buffer", "create_accel_struct_bottom_buffer", "create_teapot_blas",
       "blas_create_query_pools", "blas_begin", "blas_record_build", "blas_record_barrier",
       "blas_record_write_compacted_size", "blas_record_write_serialization_size",
       "blas_finish", "blas_submit", "blas_wait_for_fence", "blas_read_compacted_size",
       "blas_read_serialization_size", "create_accel_struct_bottom_buffer_compact",
       "create_teapot_blas_compact", "compact_begin", "compact_record_copy",
       "compact_finish", "compact_submit", "compact_wait_for_fence", "create_instances",
       "swap_handles", "upload_instances_buffer", "tlas_size_query",
       "create_tlas_scratch_buffer", "create_tlas_buffer", "create_tlas",
       "tlas_create_query_pools", "tlas_begin", "tlas_record_build", "tlas_record_barrier",
       "tlas_record_write_compacted_size", "tlas_record_write_serialization_size",
       "tlas_finish", "tlas_submit", "tlas_wait_for_fence", "tlas_read_compacted_size",
       "tlas_read_serialization_size", "write_descriptor_sets", "done" >>

\* The statements of main from the first buffer upload on, in source order.
MainOrder ==
    << "upload_vertex_buffer", "upload_index_buffer", "blas_size_query",
       "create_scratch_buffer", "create_accel_struct_bottom_buffer", "create_teapot_blas",
       "blas_create_query_pools", "blas_begin", "blas_record_build", "blas_record_barrier",
       "blas_record_write_compacted_size", "blas_record_write_serialization_size",
       "blas_finish", "blas_submit", "blas_wait_for_fence", "blas_read_compacted_size",
       "blas_read_serialization_size", "create_accel_struct_bottom_buffer_compact",
       "create_teapot_blas_compact", "compact_begin", "compact_record_copy",
       "compact_finish", "compact_submit", "compact_wait_for_fence", "swap_handles",
       "create_instances", "upload_instances_buffer", "tlas_size_query",
       "create_tlas_scratch_buffer", "create_tlas_buffer", "create_tlas",
       "tlas_create_query_pools", "tlas_begin", "tlas_record_build", "tlas_record_barrier",
       "tlas_record_write_compacted_size", "tlas_record_write_serialization_size",
       "tlas_finish", "tlas_submit", "tlas_wait_for_fence", "tlas_read_compacted_size",
       "tlas_read_serialization_size", "write_descriptor_sets", "done" >>

\* The statement after `label`.
NextPc(label) ==
    MainOrder[(CHOOSE i \in 1 .. Len(MainOrder) : MainOrder[i] = label) + 1]

Event(op, obj, n) == [op |-> op, obj |-> obj, n |-> n]

\* A recorded command: source and destination handles (0 for none), the
\* geometry, query type, copy mode or access range, the scratch buffer and
\* the number of build ranges.
Command(cmd, src, dst, what, scratch, n) ==
    [cmd |-> cmd, src |-> src, dst |-> dst, what |-> what, scratch |-> scratch, n |-> n]

\* A bottom-level description with a second geometry and no second range.
geometry_desc_two_geometries ==
    [ flags |-> {"ALLOW_COMPACTION"},
      ty |-> "BottomLevel",
      geometries |-> << [flags |-> {"OPAQUE"}, variant |-> "Triangles",
                         buffer |-> "vertex_buffer", index_buffer |-> "index_buffer"],
                        [flags |-> {"OPAQUE"}, variant |-> "Triangles",
                         buffer |-> "vertex_buffer", index_buffer |-> "index_buffer"] >> ]

\* let geometry_desc = accel::GeometryDesc { .. } (main.rs:214)
geometry_desc ==
    [ flags |-> {"ALLOW_COMPACTION"},
      ty |-> "BottomLevel",
      geometries |-> << [flags |-> {"OPAQUE"}, variant |-> "Triangles",
                         buffer |-> "vertex_buffer", index_buffer |-> "index_buffer"] >> ]

\* A top-level description whose geometry is a triangle list.
top_level_geometry_desc_triangles ==
    [ flags |-> {"ALLOW_COMPACTION"},
      ty |-> "TopLevel",
      geometries |-> << [flags |-> {"OPAQUE"}, variant |-> "Triangles",
                         buffer |-> "instances_buffer", index_buffer |-> "none"] >> ]

\* let top_level_geometry_desc = accel::GeometryDesc { .. } (main.rs:455)
top_level_geometry_desc ==
    [ flags |-> {"ALLOW_COMPACTION"},
      ty |-> "TopLevel",
      geometries |-> << [flags |-> {"OPAQUE"}, variant |-> "Instances",
                         buffer |-> "instances_buffer", index_buffer |-> "none"] >> ]

\* The GeometryDesc a size query or a build refers to.
GeometryDescNamed(name) ==
    IF name = "geometry_desc" THEN geometry_desc ELSE top_level_geometry_desc

NoAccel == [accel_struct |-> 0, backing |-> "none"]

ExampleLocals(mesh) ==
    [ teapot_vertices_len |-> mesh.vertices,
      teapot_indices_len |-> mesh.indices,
      teapot_primitive_count |-> 0,
      teapot_blas_requirements |-> NoRequirements,
      teapot_blas |-> NoAccel,
      teapot_blas_compacted_size |-> 0,
      teapot_blas_compact |-> NoAccel,
      instances |-> << >>,
      tlas_requirements |-> NoRequirements,
      tlas |-> NoAccel ]

\* The example has not been started.
ExampleIdle ==
    /\ pc = "idle"
    /\ limits = [non_coherent_atom_size |-> 1]
    /\ locals = ExampleLocals([vertices |-> 0, indices |-> 0])
    /\ buffers = << >>
    /\ accels = << >>
    /\ cmds = << >>
    /\ log = << >>

ExampleInit ==
    /\ pc = MainOrder[1]
    /\ \E a \in Alignments : limits = [non_coherent_atom_size |-> a]
    /\ \E mesh \in Meshes : locals = ExampleLocals(mesh)
    /\ buffers = << >>
    /\ accels = << >>
    /\ cmds = << >>
    /\ log = << >>

\* The result r of create_empty_buffer for the variable `name`: the pair is
\* kept, or the assertion / unwrap inside it has panicked.
KeepBuffer(label, name, len, r) ==
    /\ pc = label
    /\ IF r.panicked
       THEN /\ pc' = "panicked"
            /\ log' = Append(log, Event("panic", name, len))
            /\ UNCHANGED buffers
       ELSE /\ pc' = NextPc(label)
            /\ buffers' = Append(buffers, [name |-> name, len |-> len,
                                           buffer |-> r.buffer, memory |-> r.memory])
            /\ log' = Append(log, Event("create_empty_buffer", name, len))
    /\ UNCHANGED <<limits, locals, accels, cmds, instVars, rb, otherVars>>

\* A statement that only calls the device or the queue.
Call(label, op, obj, n) ==
    /\ pc = label
    /\ pc' = NextPc(label)
    /\ log' = Append(log, Event(op, obj, n))

\* Recording a command appends it to the command buffer being recorded.
Record(label, op, obj, command) ==
    /\ Call(label, op, obj, Len(cmds))
    /\ cmds' = [cmds EXCEPT ![Len(cmds)].commands = Append(@, command)]
    /\ UNCHANGED <<limits, locals, buffers, accels, instVars, rb, otherVars>>

\* create_fence, allocate_one and begin_primary: a new command buffer is recording.
Begin(label) ==
    /\ Call(label, "begin_primary", "cmd_buffer", Len(cmds) + 1)
    /\ cmds' = Append(cmds, [commands |-> << >>, state |-> "recording"])
    /\ UNCHANGED <<limits, locals, buffers, accels, instVars, rb, otherVars>>

Finish(label) ==
    /\ Call(label, "finish", "cmd_buffer", Len(cmds))
    /\ cmds' = [cmds EXCEPT ![Len(cmds)].state = "executable"]
    /\ UNCHANGED <<limits, locals, buffers, accels, instVars, rb, otherVars>>

\* submit_without_semaphores(Some(&cmd_buffer), Some(&mut build_fence))
Submit(label) ==
    /\ Call(label, "submit", "cmd_buffer", Len(cmds))
    /\ cmds' = [cmds EXCEPT ![Len(cmds)].state = "pending"]
    /\ UNCHANGED <<limits, locals, buffers, accels, instVars, rb, otherVars>>

\* The structures as the commands of a command buffer leave them.
RECURSIVE Executed(_, _, _)
Executed(structures, commands, k) ==
    IF k > Len(commands) THEN structures
    ELSE LET c == commands[k]
             after ==
                 CASE c.cmd = "build_acceleration_structures" ->
                          [structures EXCEPT ![c.dst].state = "built",
                                             ![c.dst].contents = c.what]
                   [] c.cmd = "copy_acceleration_structure" ->
                          [structures EXCEPT ![c.dst].state = structures[c.src].state,
                                             ![c.dst].contents = structures[c.src].contents]
                   [] OTHER -> structures
         IN Executed(after, commands, k + 1)

\* wait_for_fence(&build_fence, !0): returns once the submitted commands have run.
WaitForFence(label) ==
    /\ Call(label, "wait_for_fence", "build_fence", Len(cmds))
    /\ cmds' = [cmds EXCEPT ![Len(cmds)].state = "complete"]
    /\ accels' = Executed(accels, cmds[Len(cmds)].commands, 1)
    /\ UNCHANGED <<limits, locals, buffers, instVars, rb, otherVars>>

\* Every structure created as Type::Generic.
NewAccel_generic(name, buffer, size, ty) ==
    [name |-> name, buffer |-> buffer, buffer_offset |-> 0, size |-> size, ty |-> "Generic",
     state |-> "unbuilt", contents |-> "none", destroyed |-> FALSE, dropped |-> FALSE]

\* create_acceleration_structure(&CreateDesc { buffer, buffer_offset: 0, size, ty })
NewAccel(name, buffer, size, ty) ==
    [name |-> name, buffer |-> buffer, buffer_offset |-> 0, size |-> size, ty |-> ty,
     state |-> "unbuilt", contents |-> "none", destroyed |-> FALSE, dropped |-> FALSE]

BufferNamed(name) == CHOOSE b \in {buffers[i] : i \in 1 .. Len(buffers)} : b.name = name

Barrier ==
    Command("pipeline_barrier", 0, 0,
            "ACCELERATION_STRUCTURE_WRITE..ACCELERATION_STRUCTURE_READ", "none", 0)

WriteProperties(handle, query_type) ==
    Command("write_acceleration_structures_properties", handle, 0, query_type, "none", 0)

UploadVertexBuffer ==
    KeepBuffer("upload_vertex_buffer", "vertex_buffer",
               locals.teapot_vertices_len * SizeOf(Vertex),
               upload_to_buffer(limits.non_coherent_atom_size, locals.teapot_vertices_len, Vertex))

UploadIndexBuffer ==
    KeepBuffer("upload_index_buffer", "index_buffer",
               locals.teapot_indices_len * SizeOf(U16),
               upload_to_buffer(limits.non_coherent_atom_size, locals.teapot_indices_len, U16))

\* The size query for the BLAS and the three assertions on its answer.
BlasSizeQuery ==
    /\ pc = "blas_size_query"
    /\ LET count == locals.teapot_indices_len \div 3 IN
       \E req \in SizeRequirementsFor(geometry_desc, <<count>>) :
           /\ locals' = [locals EXCEPT !.teapot_primitive_count = count,
                                       !.teapot_blas_requirements = req]
           /\ pc' = IF /\ req.acceleration_structure_size > 0
                       /\ req.update_scratch_size = 0
                       /\ req.build_scratch_size > 0
                    THEN NextPc("blas_size_query") ELSE "panicked"
           /\ log' = Append(log, Event("get_acceleration_structure_build_requirements",
                                       "geometry_desc", 1))
    /\ UNCHANGED <<limits, buffers, accels, cmds, instVars, rb, otherVars>>

CreateScratchBuffer ==
    KeepBuffer("create_scratch_buffer", "scratch_buffer",
               locals.teapot_blas_requirements.build_scratch_size,
               create_empty_buffer(limits.non_coherent_atom_size,
                                   locals.teapot_blas_requirements.build_scratch_size))

CreateAccelStructBottomBuffer ==
    KeepBuffer("create_accel_struct_bottom_buffer", "accel_struct_bottom_buffer",
               locals.teapot_blas_requirements.acceleration_structure_size,
               create_empty_buffer(limits.non_coherent_atom_size,
                                   locals.teapot_blas_requirements.acceleration_structure_size))

CreateTeapotBlas ==
    /\ Call("create_teapot_blas", "create_acceleration_structure", "teapot_blas",
            locals.teapot_blas_requirements.acceleration_structure_size)
    /\ accels' = Append(accels, NewAccel("teapot", "accel_struct_bottom_buffer",
                            locals.teapot_blas_requirements.acceleration_structure_size,
                            "BottomLevel"))
    /\ locals' = [locals EXCEPT !.teapot_blas =
                      [accel_struct |-> Len(accels) + 1,
                       backing |-> "accel_struct_bottom_buffer"]]
    /\ UNCHANGED <<limits, buffers, cmds, instVars, rb, otherVars>>

BlasCreateQueryPools ==
    /\ Call("blas_create_query_pools", "create_query_pool", "query_pools", 1)
    /\ UNCHANGED <<limits, locals, buffers, accels, cmds, instVars, rb, otherVars>>

BlasBegin == Begin("blas_begin")

BlasRecordBuild ==
    Record("blas_record_build", "build_acceleration_structures", "teapot_blas",
           Command("build_acceleration_structures", 0, locals.teapot_blas.accel_struct,
                   "geometry_desc", "scratch_buffer", 1))

BlasRecordBarrier == Record("blas_record_barrier", "pipeline_barrier", "AllBuffers", Barrier)

BlasRecordWriteCompactedSize ==
    Record("blas_record_write_compacted_size", "write_acceleration_structures_properties",
           "compacted_size_pool",
           WriteProperties(locals.teapot_blas.accel_struct, "AccelerationStructureCompactedSize"))

BlasRecordWriteSerializationSize ==
    Record("blas_record_write_serialization_size", "write_acceleration_structures_properties",
           "serialized_size_pool",
           WriteProperties(locals.teapot_blas.accel_struct,
                           "AccelerationStructureSerializationSize"))

BlasFinish == Finish("blas_finish")

BlasSubmit == Submit("blas_submit")

BlasWaitForFence == WaitForFence("blas_wait_for_fence")

\* get_query_pool_results(&compacted_size_pool, .., ResultFlags::WAIT)
BlasReadCompactedSize ==
    /\ pc = "blas_read_compacted_size"
    /\ \E c \in CompactedSizesFor(accels[locals.teapot_blas.accel_struct]) :
           /\ locals' = [locals EXCEPT !.teapot_blas_compacted_size = c]
           /\ log' = Append(log, Event("get_query_pool_results", "compacted_size_pool", c))
    /\ pc' = NextPc("blas_read_compacted_size")
    /\ UNCHANGED <<limits, buffers, accels, cmds, instVars, rb, otherVars>>

BlasReadSerializationSize ==
    /\ Call("blas_read_serialization_size", "get_query_pool_results", "serialized_size_pool", 0)
    /\ UNCHANGED <<limits, locals, buffers, accels, cmds, instVars, rb, otherVars>>

CreateAccelStructBottomBufferCompact ==
    KeepBuffer("create_accel_struct_bottom_buffer_compact", "accel_struct_bottom_buffer_compact",
               locals.teapot_blas_compacted_size,
               create_empty_buffer(limits.non_coherent_atom_size,
                                   locals.teapot_blas_compacted_size))

CreateTeapotBlasCompact ==
    /\ Call("create_teapot_blas_compact", "create_acceleration_structure",
            "teapot_blas_compact", locals.teapot_blas_compacted_size)
    /\ accels' = Append(accels, NewAccel("teapot_compact", "accel_struct_bottom_buffer_compact",
                                         locals.teapot_blas_compacted_size, "BottomLevel"))
    /\ locals' = [locals EXCEPT !.teapot_blas_compact =
                      [accel_struct |-> Len(accels) + 1,
                       backing |-> "accel_struct_bottom_buffer_compact"]]
    /\ UNCHANGED <<limits, buffers, cmds, instVars, rb, otherVars>>

CompactBegin == Begin("compact_begin")

CompactRecordCopy ==
    Record("compact_record_copy", "copy_acceleration_structure", "teapot_blas_compact",
           Command("copy_acceleration_structure", locals.teapot_blas.accel_struct,
                   locals.teapot_blas_compact.accel_struct, "Compact", "none", 0))

CompactFinish == Finish("compact_finish")

CompactSubmit == Submit("compact_submit")

CompactWaitForFence == WaitForFence("compact_wait_for_fence")

\* let _ = mem::replace(&mut teapot_blas, teapot_blas_compact): the compacted
\* structure takes the place of the old one, whose value is dropped.
SwapHandles ==
    /\ Call("swap_handles", "mem_replace", "teapot_blas", locals.teapot_blas.accel_struct)
    /\ locals' = [locals EXCEPT !.teapot_blas = locals.teapot_blas_compact,
                                !.teapot_blas_compact = NoAccel]
    /\ accels' = [accels EXCEPT ![locals.teapot_blas.accel_struct].dropped = TRUE]
    /\ UNCHANGED <<limits, buffers, cmds, instVars, rb, otherVars>>

CreateInstances ==
    /\ Call("create_instances", "get_acceleration_structure_address", "teapot_blas",
            locals.teapot_blas.accel_struct)
    /\ locals' = [locals EXCEPT !.instances =
                      << Instance_new(get_acceleration_structure_address(
                                          locals.teapot_blas.accel_struct)) >>]
    /\ UNCHANGED <<limits, buffers, accels, cmds, instVars, rb, otherVars>>

UploadInstancesBuffer ==
    KeepBuffer("upload_instances_buffer", "instances_buffer",
               Len(locals.instances) * SizeOf(Instance),
               upload_to_buffer(limits.non_coherent_atom_size, Len(locals.instances), Instance))

TlasSizeQuery ==
    /\ pc = "tlas_size_query"
    /\ \E req \in SizeRequirementsFor(top_level_geometry_desc, <<1>>) :
           locals' = [locals EXCEPT !.tlas_requirements = req]
    /\ pc' = NextPc("tlas_size_query")
    /\ log' = Append(log, Event("get_acceleration_structure_build_requirements",
                                "top_level_geometry_desc", 1))
    /\ UNCHANGED <<limits, buffers, accels, cmds, instVars, rb, otherVars>>

\* Sized with teapot_blas_requirements, as main.rs:476 does.
CreateTlasScratchBuffer ==
    KeepBuffer("create_tlas_scratch_buffer", "tlas_scratch_buffer",
               locals.teapot_blas_requirements.build_scratch_size,
               create_empty_buffer(limits.non_coherent_atom_size,
                                   locals.teapot_blas_requirements.build_scratch_size))

\* Sized with teapot_blas_requirements, as main.rs:484 does.
CreateTlasBuffer ==
    KeepBuffer("create_tlas_buffer", "tlas_buffer",
               locals.teapot_blas_requirements.acceleration_structure_size,
               create_empty_buffer(limits.non_coherent_atom_size,
                                   locals.teapot_blas_requirements.acceleration_structure_size))

CreateTlas ==
    /\ Call("create_tlas", "create_acceleration_structure", "tlas",
            locals.tlas_requirements.acceleration_structure_size)
    /\ accels' = Append(accels, NewAccel("tlas", "tlas_buffer",
                                         locals.tlas_requirements.acceleration_structure_size,
                                         "TopLevel"))
    /\ locals' = [locals EXCEPT !.tlas = [accel_struct |-> Len(accels) + 1,
                                          backing |-> "tlas_buffer"]]
    /\ UNCHANGED <<limits, buffers, cmds, instVars, rb, otherVars>>

TlasCreateQueryPools ==
    /\ Call("tlas_create_query_pools", "create_query_pool", "query_pools", 1)
    /\ UNCHANGED <<limits, locals, buffers, accels, cmds, instVars, rb, otherVars>>

TlasBegin == Begin("tlas_begin")

TlasRecordBuild ==
    Record("tlas_record_build", "build_acceleration_structures", "tlas",
           Command("build_acceleration_structures", 0, locals.tlas.accel_struct,
                   "top_level_geometry_desc", "tlas_scratch_buffer", 1))

TlasRecordBarrier == Record("tlas_record_barrier", "pipeline_barrier", "AllBuffers", Barrier)

TlasRecordWriteCompactedSize ==
    Record("tlas_record_write_compacted_size", "write_acceleration_structures_properties",
           "compacted_size_pool",
           WriteProperties(locals.tlas.accel_struct, "AccelerationStructureCompactedSize"))

TlasRecordWriteSerializationSize ==
    Record("tlas_record_write_serialization_size", "write_acceleration_structures_properties",
           "serialized_size_pool",
           WriteProperties(locals.tlas.accel_struct, "AccelerationStructureSerializationSize"))

TlasFinish == Finish("tlas_finish")

TlasSubmit == Submit("tlas_submit")

TlasWaitForFence == WaitForFence("tlas_wait_for_fence")

TlasReadCompactedSize ==
    /\ Call("tlas_read_compacted_size", "get_query_pool_results", "compacted_size_pool", 0)
    /\ UNCHANGED <<limits, locals, buffers, accels, cmds, instVars, rb, otherVars>>

TlasReadSerializationSize ==
    /\ Call("tlas_read_serialization_size", "get_query_pool_results", "serialized_size_pool", 0)
    /\ UNCHANGED <<limits, locals, buffers, accels, cmds, instVars, rb, otherVars>>

WriteDescriptorSets ==
    /\ Call("write_descriptor_sets", "write_descriptor_sets", "tlas", locals.tlas.accel_struct)
    /\ UNCHANGED <<limits, locals, buffers, accels, cmds, instVars, rb, otherVars>>

ExampleNext ==
    \/ UploadVertexBuffer
    \/ UploadIndexBuffer
    \/ BlasSizeQuery
    \/ CreateScratchBuffer
    \/ CreateAccelStructBottomBuffer
    \/ CreateTeapotBlas
    \/ BlasCreateQueryPools
    \/ BlasBegin
    \/ BlasRecordBuild
    \/ BlasRecordBarrier
    \/ BlasRecordWriteCompactedSize
    \/ BlasRecordWriteSerializationSize
    \/ BlasFinish
    \/ BlasSubmit
    \/ BlasWaitForFence
    \/ BlasReadCompactedSize
    \/ BlasReadSerializationSize
    \/ CreateAccelStructBottomBufferCompact
    \/ CreateTeapotBlasCompact
    \/ CompactBegin
    \/ CompactRecordCopy
    \/ CompactFinish
    \/ CompactSubmit
    \/ CompactWaitForFence
    \/ SwapHandles
    \/ CreateInstances
    \/ UploadInstancesBuffer
    \/ TlasSizeQuery
    \/ CreateTlasScratchBuffer
    \/ CreateTlasBuffer
    \/ CreateTlas
    \/ TlasCreateQueryPools
    \/ TlasBegin
    \/ TlasRecordBuild
    \/ TlasRecordBarrier
    \/ TlasRecordWriteCompactedSize
    \/ TlasRecordWriteSerializationSize
    \/ TlasFinish
    \/ TlasSubmit
    \/ TlasWaitForFence
    \/ TlasReadCompactedSize
    \/ TlasReadSerializationSize
    \/ WriteDescriptorSets

------------------------------------------------------------------------------
(* The Instance state machine: Instance::new, then any sequence of setters. *)

InstInit ==
    \E blas \in Addresses :
        /\ inst = Instance_new(blas)
        /\ call = [op |-> "new", arg |-> Zero32, addr |-> blas, outcome |-> "ok"]
        /\ hist = NoHist

New ==
    \E blas \in Addresses :
        /\ inst' = Instance_new(blas)
        /\ call' = [op |-> "new", arg |-> Zero32, addr |-> blas, outcome |-> "ok"]
        /\ hist' = NoHist
        /\ UNCHANGED <<rb, exVars, otherVars>>

SetInstanceCustomIndex ==
    \E n \in U32Args :
        LET r == set_instance_custom_index(inst, n) IN
        /\ inst' = r.self
        /\ call' = [op |-> "set_instance_custom_index", arg |-> n,
                    addr |-> inst.acceleration_structure_reference, outcome |-> Outcome(r)]
        /\ hist' = IF r.panicked THEN hist
                   ELSE [hist EXCEPT !.custom_index = n,
                                     !.in_range = @ /\ Lt(n, Limit24)]
        /\ UNCHANGED <<rb, exVars, otherVars>>

SetMask ==
    \E m \in U8Args :
        LET r == set_mask(inst, m) IN
        /\ inst' = r.self
        /\ call' = [op |-> "set_mask", arg |-> FromNat(m),
                    addr |-> inst.acceleration_structure_reference, outcome |-> Outcome(r)]
        /\ hist' = [hist EXCEPT !.mask = FromNat(m)]
        /\ UNCHANGED <<rb, exVars, otherVars>>

SetInstanceShaderBindingTableRecordOffset ==
    \E n \in U32Args :
        LET r == set_instance_shader_binding_table_record_offset(inst, n) IN
        /\ inst' = r.self
        /\ call' = [op |-> "set_instance_shader_binding_table_record_offset", arg |-> n,
                    addr |-> inst.acceleration_structure_reference, outcome |-> Outcome(r)]
        /\ hist' = IF r.panicked THEN hist
                   ELSE [hist EXCEPT !.offset = n,
                                     !.in_range = @ /\ Lt(n, Limit24)]
        /\ UNCHANGED <<rb, exVars, otherVars>>

SetFlags ==
    \E f \in FlagArgs :
        LET r == set_flags(inst, f) IN
        /\ inst' = r.self
        /\ call' = [op |-> "set_flags", arg |-> FromNat(bits(f)),
                    addr |-> inst.acceleration_structure_reference, outcome |-> Outcome(r)]
        /\ hist' = [hist EXCEPT !.flags = FromNat(bits(f))]
        /\ UNCHANGED <<rb, exVars, otherVars>>

Init == InstInit /\ rb = IdleRb /\ ExampleIdle /\ OthersIdle

Next ==
    \/ New
    \/ SetInstanceCustomIndex
    \/ SetMask
    \/ SetInstanceShaderBindingTableRecordOffset
    \/ SetFlags

Spec == Init /\ [][Next]_vars

------------------------------------------------------------------------------
(* replace_bits on its own: inputs drawn from the test patterns. *)

BitPatterns ==
    {Zero32, AllOnes32, TOP_24_MASK, BOTTOM_8_MASK, FromNat(11259375)} \cup Samples

RbInputs(d, n, m) ==
    [destination |-> d, new_bits |-> n, new_bits_mask |-> m, out |-> Zero32, done |-> FALSE]

ReplaceBitsInit ==
    /\ inst = Instance_new(0)
    /\ call = [op |-> "new", arg |-> Zero32, addr |-> 0, outcome |-> "ok"]
    /\ hist = NoHist
    /\ \E d \in BitPatterns, n \in BitPatterns, m \in BitPatterns : rb = RbInputs(d, n, m)
    /\ ExampleIdle
    /\ OthersIdle

ReplaceBitsCall ==
    /\ ~rb.done
    /\ rb' = [rb EXCEPT !.out = replace_bits(rb.destination, rb.new_bits, rb.new_bits_mask),
                        !.done = TRUE]
    /\ UNCHANGED <<instVars, exVars, otherVars>>

ReplaceBitsAgain ==
    /\ rb.done
    /\ \E d \in BitPatterns, n \in BitPatterns, m \in BitPatterns : rb' = RbInputs(d, n, m)
    /\ UNCHANGED <<instVars, exVars, otherVars>>

ReplaceBitsNext == ReplaceBitsCall \/ ReplaceBitsAgain

SpecReplaceBits == ReplaceBitsInit /\ [][ReplaceBitsNext]_vars

------------------------------------------------------------------------------
(* The ray-tracing example on its own. *)

SpecExampleInit ==
    /\ inst = Instance_new(0)
    /\ call = [op |-> "new", arg |-> Zero32, addr |-> 0, outcome |-> "ok"]
    /\ hist = NoHist
    /\ rb = IdleRb
    /\ ExampleInit
    /\ OthersIdle

SpecExample == SpecExampleInit /\ [][ExampleNext]_vars

------------------------------------------------------------------------------
(* The API boundary on its own: create_buffer of the mock backend, and the   *)
(* size query and the build command of the mock backend and of a backend     *)
(* that implements them as the specification requires.                       *)

\* Largest number of geometries in a GeometryDesc passed at the boundary.
MaxGeometries == 2

Variants == {"Triangles", "Aabbs", "Instances"}

GeometryOf(variant) ==
    [flags |-> {}, variant |-> variant, buffer |-> "none", index_buffer |-> "none"]

VariantLists == UNION {[1 .. n -> Variants] : n \in 0 .. MaxGeometries}

\* GeometryDescs a caller may pass, valid or not.
ApiDescs ==
    {[flags |-> f, ty |-> t, geometries |-> [i \in DOMAIN vs |-> GeometryOf(vs[i])]] :
        f \in {{}, {"ALLOW_UPDATE"}}, t \in {"TopLevel", "BottomLevel"}, vs \in VariantLists}

\* Lists of maximum primitive counts, or of build ranges, a caller may pass.
CountLists == {[i \in 1 .. n |-> 12] : n \in 0 .. MaxGeometries}

BufferSizes == {0, 1, 100, 256}

\* A contract check that does not compare the lengths.
GeometryContract_no_length_check(desc, counts) ==
    /\ \A i \in 1 .. Len(desc.geometries) :
           desc.geometries[i].variant = desc.geometries[1].variant
    /\ \A i \in 1 .. Len(desc.geometries) :
           IF desc.ty = "TopLevel"
           THEN desc.geometries[i].variant = "Instances"
           ELSE desc.geometries[i].variant \in {"Triangles", "Aabbs"}

\* The assertions at the boundary: every geometry is of the variant of the
\* first, the variant suits the structure type, and there is one count (or
\* one build range) per geometry.
GeometryContract(desc, counts) ==
    /\ \A i \in 1 .. Len(desc.geometries) :
           desc.geometries[i].variant = desc.geometries[1].variant
    /\ \A i \in 1 .. Len(desc.geometries) :
           IF desc.ty = "TopLevel"
           THEN desc.geometries[i].variant = "Instances"
           ELSE desc.geometries[i].variant \in {"Triangles", "Aabbs"}
    /\ Len(counts) = Len(desc.geometries)

Aborted == [outcome |-> "abort", result |-> NoRequirements]

\* Device::get_acceleration_structure_build_requirements of the mock backend:
\* unimplemented!(), whatever the arguments.
empty_get_acceleration_structure_build_requirements(desc, counts) == {Aborted}

\* CommandBuffer::build_acceleration_structures of the mock backend: todo!().
empty_build_acceleration_structures(desc, ranges) == "abort"

\* The size query of a backend that implements it: the possible outcomes.
get_acceleration_structure_build_requirements(desc, counts) ==
    IF ~GeometryContract(desc, counts)
    THEN {Aborted}
    ELSE {[outcome |-> "ok", result |-> r] : r \in SizeRequirementsFor(desc, counts)}

\* The build command of a backend that implements it.
build_acceleration_structures(desc, ranges) ==
    IF ~GeometryContract(desc, ranges) THEN "abort" ELSE "recorded"

Backends == {"empty", "device"}

\* device.create_buffer(size, usage) of the mock backend: Ok(Buffer::new(size)).
ApiCreateBuffer ==
    /\ api = ApiIdle
    /\ \E size \in BufferSizes :
           api' = [ApiIdle EXCEPT !.op = "create_buffer", !.backend = "empty", !.size = size,
                                  !.outcome = "ok", !.result = create_buffer(size)]
    /\ UNCHANGED <<instVars, rb, exVars, d3d, dxVars>>

ApiSizeQuery ==
    /\ api = ApiIdle
    /\ \E backend \in Backends, desc \in ApiDescs, counts \in CountLists :
           \E r \in IF backend = "empty"
                    THEN empty_get_acceleration_structure_build_requirements(desc, counts)
                    ELSE get_acceleration_structure_build_requirements(desc, counts) :
               api' = [ApiIdle EXCEPT !.op = "get_acceleration_structure_build_requirements",
                                      !.backend = backend, !.desc = desc, !.counts = counts,
                                      !.outcome = r.outcome, !.result = r.result]
    /\ UNCHANGED <<instVars, rb, exVars, d3d, dxVars>>

ApiBuild ==
    /\ api = ApiIdle
    /\ \E backend \in Backends, desc \in ApiDescs, ranges \in CountLists :
           api' = [ApiIdle EXCEPT !.op = "build_acceleration_structures",
                                  !.backend = backend, !.desc = desc, !.counts = ranges,
                                  !.outcome = IF backend = "empty"
                                              THEN empty_build_acceleration_structures(desc, ranges)
                                              ELSE build_acceleration_structures(desc, ranges)]
    /\ UNCHANGED <<instVars, rb, exVars, d3d, dxVars>>

\* The call is over (it has returned or the panic has unwound); the caller
\* may make another.
ApiReturn ==
    /\ api # ApiIdle
    /\ api' = ApiIdle
    /\ UNCHANGED <<instVars, rb, exVars, d3d, dxVars>>

ApiNext == ApiCreateBuffer \/ ApiSizeQuery \/ ApiBuild \/ ApiReturn

ApiInit ==
    /\ inst = Instance_new(0)
    /\ call = [op |-> "new", arg |-> Zero32, addr |-> 0, outcome |-> "ok"]
    /\ hist = NoHist
    /\ rb = IdleRb
    /\ ExampleIdle
    /\ OthersIdle

SpecBoundary == ApiInit /\ [][ApiNext]_vars

------------------------------------------------------------------------------
(* backend/dx11: ComPtr and copy_texture_to_buffer, one D3D11 call per step. *)

\* Largest width, height and depth of the copied texture region.
MaxExtent == 2

\* S_OK, S_FALSE, E_FAIL and E_OUTOFMEMORY as 32-bit signed HRESULTs.
HRESULTS == {0, 1, -2147467259, -2147024882}

SUCCEEDED(hr) == hr >= 0

\* What a creation function may leave behind: its HRESULT and the out-pointer.
CreationResults == {[hr |-> hr, ptr |-> ptr] : hr \in HRESULTS, ptr \in {"null", "object"}}

\* create_with that takes the pointer whatever the HRESULT.
create_with_unchecked(hr, new_ptr) ==
    IF new_ptr = "null"
    THEN [tag |-> "Panic", hr |-> hr, ptr |-> new_ptr]
    ELSE [tag |-> "Ok", hr |-> hr, ptr |-> new_ptr]

\* create_with that wraps whatever pointer a succeeding creation function left.
create_with_null_ok(hr, new_ptr) ==
    IF ~SUCCEEDED(hr)
    THEN [tag |-> "Err", hr |-> hr, ptr |-> "null"]
    ELSE [tag |-> "Ok", hr |-> hr, ptr |-> new_ptr]

\* ComPtr::create_with(f), f having returned hr and set the out-pointer to new_ptr.
create_with(hr, new_ptr) ==
    IF ~SUCCEEDED(hr)
    THEN [tag |-> "Err", hr |-> hr, ptr |-> "null"]
    ELSE IF new_ptr = "null"
         THEN [tag |-> "Panic", hr |-> hr, ptr |-> new_ptr]
         ELSE [tag |-> "Ok", hr |-> hr, ptr |-> new_ptr]

\* The regions copy_texture_to_buffer may be given.
TextureRegions ==
    {[num_slices |-> n, depth |-> d, width |-> w, height |-> h, bytes_per_pixel |-> b,
      format_mapped |-> f] :
        n \in {"None", "Some"}, d \in 0 .. MaxExtent, w \in 1 .. MaxExtent,
        h \in 1 .. MaxExtent, b \in {1, 2}, f \in BOOLEAN}

\* The D3D11_MAPPED_SUBRESOURCE a successful Map may fill in for the region.
Mappings(src) ==
    {[pData |-> p, RowPitch |-> r, DepthPitch |-> r * src.height + dp] :
        p \in {"null", "memory"},
        r \in {src.width * src.bytes_per_pixel, src.width * src.bytes_per_pixel + 2},
        dp \in {0, 3}}

D3dCall(fn, on, arg) == [fn |-> fn, on |-> on, arg |-> arg]

RECURSIVE Releases(_)
\* impl Drop for ComPtr, for the ComPtrs held, the last acquired first.
Releases(held) ==
    IF held = << >> THEN << >>
    ELSE <<D3dCall("Release", held[Len(held)], "none")>>
             \o Releases(SubSeq(held, 1, Len(held) - 1))

\* Leaving without dropping the locals.
Leave_without_drop(s, pc_after) == [s EXCEPT !.pc = pc_after]

\* Leaving the function (return, or a panic unwinding): the locals are dropped.
Leave(s, pc_after) ==
    [s EXCEPT !.pc = pc_after, !.calls = s.calls \o Releases(s.held), !.held = << >>]

\* Logging the failure and carrying on with the next statement.
LogAndReturn_falls_through(s, message, hr) ==
    [s EXCEPT !.errors = Append(s.errors, [message |-> message, hr |-> hr]),
              !.failure = message, !.pc = "unmap"]

\* try_log!(message, Err(hr)) and the error! of a failed Map: log, then return.
LogAndReturn(s, message, hr) ==
    Leave([s EXCEPT !.errors = Append(s.errors, [message |-> message, hr |-> hr]),
                    !.failure = message], "done")

depth_of(src) == Max(1, src.depth)

buffer_len_of(src) == depth_of(src) * src.width * src.height * src.bytes_per_pixel

\* The loops with the destination laid out with the mapping's row pitch.
RepackAt_mapped_row_pitch(src, m, t) ==
    LET bpp == src.bytes_per_pixel
        byte == t % bpp
        col == (t \div bpp) % src.width
        row == (t \div (bpp * src.width)) % src.height
        slice == t \div (bpp * src.width * src.height)
        dst_depth_pitch == src.width * src.height * bpp
        pixel_offset_src == slice * m.DepthPitch + row * m.RowPitch + col * bpp
        pixel_offset_dst == slice * dst_depth_pitch + row * m.RowPitch + col * bpp
    IN [dst |-> pixel_offset_dst + byte, src |-> pixel_offset_src + byte]

\* Iteration t of the four nested loops (slice, row, col, byte, the last
\* running fastest): the index of data written and the offset in the mapping
\* the byte is read from.
RepackAt(src, m, t) ==
    LET bpp == src.bytes_per_pixel
        byte == t % bpp
        col == (t \div bpp) % src.width
        row == (t \div (bpp * src.width)) % src.height
        slice == t \div (bpp * src.width * src.height)
        dst_depth_pitch == src.width * src.height * bpp
        dst_row_pitch == src.width * bpp
        pixel_offset_src == slice * m.DepthPitch + row * m.RowPitch + col * bpp
        pixel_offset_dst == slice * dst_depth_pitch + row * dst_row_pitch + col * bpp
    IN [dst |-> pixel_offset_dst + byte, src |-> pixel_offset_src + byte]

RECURSIVE Repacked(_, _, _, _)
\* The four nested loops, iteration t onwards: data[k] is the offset in the
\* mapping the byte was read from, -1 where no byte has been written.
Repacked(src, m, data, t) ==
    IF t >= buffer_len_of(src) THEN data
    ELSE LET w == RepackAt(src, m, t)
         IN Repacked(src, m, [data EXCEPT ![w.dst + 1] = w.src], t + 1)

\* The indices of data the loops assign, in the order they assign them.
RepackWrites(src, m) == [t \in 1 .. buffer_len_of(src) |-> RepackAt(src, m, t - 1).dst]

CopyStep(s) ==
    /\ d3d' = s
    /\ UNCHANGED <<instVars, rb, exVars, api, dxVars>>

\* copy_texture_to_buffer(context, src, dst, dst_offset) is called.
CopyStart ==
    /\ d3d.pc = "idle"
    /\ \E src \in TextureRegions : CopyStep([D3dIdle EXCEPT !.pc = "slices", !.src = src])

\* match src.kind.get_num_slices() { Some(_) => assert!(src.info.depth <= 1) .. }
CopySlices ==
    /\ d3d.pc = "slices"
    /\ CopyStep(IF d3d.src.num_slices = "Some" /\ d3d.src.depth > 1
                THEN Leave(d3d, "panicked")
                ELSE [d3d EXCEPT !.pc = "get_device"])

CopyGetDevice ==
    /\ d3d.pc = "get_device"
    /\ create_with(0, "object").tag = "Ok"
    /\ CopyStep([d3d EXCEPT !.pc = "get_immediate_context",
                            !.calls = Append(@, D3dCall("GetDevice", "context", "none")),
                            !.held = Append(@, "device")])

CopyGetImmediateContext ==
    /\ d3d.pc = "get_immediate_context"
    /\ create_with(0, "object").tag = "Ok"
    /\ CopyStep([d3d EXCEPT !.pc = "create_staging_texture",
                            !.calls = Append(@, D3dCall("GetImmediateContext", "device", "none")),
                            !.held = Append(@, "immediate_context")])

\* let mut staging_texture = try_log!("create staging texture", ComPtr::create_with(..))
CopyCreateStagingTexture ==
    /\ d3d.pc = "create_staging_texture"
    /\ IF ~d3d.src.format_mapped
       THEN CopyStep(Leave(d3d, "panicked"))
       ELSE \E r \in CreationResults :
                LET called == [d3d EXCEPT !.calls =
                                   Append(@, D3dCall("CreateTexture2D", "device", r.hr))]
                    c == create_with(r.hr, r.ptr)
                IN CopyStep(CASE c.tag = "Err" ->
                                     LogAndReturn(called, "create staging texture", c.hr)
                              [] c.tag = "Panic" -> Leave(called, "panicked")
                              [] OTHER -> [called EXCEPT !.pc = "copy_to_staging",
                                                         !.held = Append(@, "staging_texture")])

CopyToStaging ==
    /\ d3d.pc = "copy_to_staging"
    /\ CopyStep([d3d EXCEPT !.pc = "map",
                            !.calls = Append(@, D3dCall("CopySubresourceRegion",
                                                        "staging_texture", "src.texture"))])

\* immediate_context.Map(staging_texture, 0, D3D11_MAP_READ, 0, &mut mapped_subresource)
CopyMap ==
    /\ d3d.pc = "map"
    /\ \E hresult \in HRESULTS :
           LET called == [d3d EXCEPT !.calls =
                              Append(@, D3dCall("Map", "staging_texture", hresult))]
           IN IF ~SUCCEEDED(hresult)
              THEN CopyStep(LogAndReturn(called, "Failed to map staging texture", hresult))
              ELSE \E m \in Mappings(d3d.src) :
                       CopyStep([called EXCEPT !.pc = "read", !.mapped = m])

\* assert!(!src.is_null()) and the loops that copy the mapped bytes into data.
CopyRead ==
    /\ d3d.pc = "read"
    /\ CopyStep(IF d3d.mapped.pData = "null"
                THEN Leave(d3d, "panicked")
                ELSE [d3d EXCEPT !.pc = "unmap",
                                 !.data = Repacked(d3d.src, d3d.mapped,
                                                   [k \in 1 .. buffer_len_of(d3d.src) |-> -1], 0),
                                 !.writes = RepackWrites(d3d.src, d3d.mapped),
                                 !.bytes_read = buffer_len_of(d3d.src)])

CopyUnmap ==
    /\ d3d.pc = "unmap"
    /\ CopyStep([d3d EXCEPT !.pc = "create_staging_buffer",
                            !.calls = Append(@, D3dCall("Unmap", "staging_texture", "none"))])

\* let mut staging_buffer = try_log!("create staging buffer", ComPtr::create_with(..))
CopyCreateStagingBuffer ==
    /\ d3d.pc = "create_staging_buffer"
    /\ \E r \in CreationResults :
           LET called == [d3d EXCEPT !.calls =
                              Append(@, D3dCall("CreateBuffer", "device", r.hr))]
               c == create_with(r.hr, r.ptr)
           IN CopyStep(CASE c.tag = "Err" ->
                                LogAndReturn(called, "create staging buffer", c.hr)
                         [] c.tag = "Panic" -> Leave(called, "panicked")
                         [] OTHER -> [called EXCEPT !.pc = "copy_to_dst",
                                                    !.held = Append(@, "staging_buffer")])

\* immediate_context.CopySubresourceRegion(dst.as_resource(), .., staging_buffer, ..)
CopyToDst ==
    /\ d3d.pc = "copy_to_dst"
    /\ CopyStep(Leave([d3d EXCEPT !.calls =
                           Append(@, D3dCall("CopySubresourceRegion", "dst", "staging_buffer"))],
                      "done"))

CopyNext ==
    \/ CopyStart
    \/ CopySlices
    \/ CopyGetDevice
    \/ CopyGetImmediateContext
    \/ CopyCreateStagingTexture
    \/ CopyToStaging
    \/ CopyMap
    \/ CopyRead
    \/ CopyUnmap
    \/ CopyCreateStagingBuffer
    \/ CopyToDst

CopyInit ==
    /\ inst = Instance_new(0)
    /\ call = [op |-> "new", arg |-> Zero32, addr |-> 0, outcome |-> "ok"]
    /\ hist = NoHist
    /\ rb = IdleRb
    /\ ExampleIdle
    /\ OthersIdle

SpecCopy == CopyInit /\ [][CopyNext]_vars

------------------------------------------------------------------------------
(* backend/dx11 ComPtr: create_with and Drop, driven as the tests of
   com_ptr.rs drive them.  The creation function f is the caller's: it returns
   an HRESULT and may set the out-pointer; when it succeeds with an object it
   hands out one reference to it (the tests' Foo starts with ref_count 1). *)

\* ComPtrs alive at the same time.
MaxComPtrs == 3

ComObjects == {"foo", "bar"}

\* What a creation function may leave behind: its HRESULT and the out-pointer.
ComCreationResults ==
    {[hr |-> hr, ptr |-> ptr] : hr \in HRESULTS, ptr \in {"null"} \cup ComObjects}

\* A Drop that releases nothing.
ComPtr_drop_leaks(refs, ptr) == [refs |-> refs, calls |-> << >>]

\* impl Drop for ComPtr: one Release on the wrapped object.
ComPtr_drop(refs, ptr) ==
    [refs  |-> [refs EXCEPT ![ptr] = @ - 1],
     calls |-> <<D3dCall("Release", ptr, 0)>>]

ComBusy == com.last.op = "f" \/ com.last.tag = "Panic"

ComStep(c) == com' = c /\ UNCHANGED <<instVars, rb, exVars, api, d3d, upd, cm>>

\* create_with calls f: `let hr = f(&mut new_ptr)`.
ComRunF ==
    /\ ~ComBusy
    /\ Len(com.held) < MaxComPtrs
    /\ \E r \in ComCreationResults :
         ComStep([com EXCEPT
            !.refs  = IF SUCCEEDED(r.hr) /\ r.ptr # "null"
                      THEN [@ EXCEPT ![r.ptr] = @ + 1]
                      ELSE @,
            !.calls = << >>,
            !.last  = [op |-> "f", hr |-> r.hr, ptr |-> r.ptr, tag |-> "none"]])

\* The rest of create_with, f having returned.
ComCreateWith ==
    /\ com.last.op = "f"
    /\ LET r == create_with(com.last.hr, com.last.ptr)
       IN ComStep([com EXCEPT
            !.held = IF r.tag = "Ok" THEN Append(@, r.ptr) ELSE @,
            !.last = [op |-> "create_with", hr |-> r.hr, ptr |-> r.ptr, tag |-> r.tag]])

\* A ComPtr goes out of scope.
ComDrop ==
    /\ ~ComBusy
    /\ \E i \in 1 .. Len(com.held) :
         LET r == ComPtr_drop(com.refs, com.held[i])
         IN ComStep([com EXCEPT
              !.refs  = r.refs,
              !.held  = SubSeq(@, 1, i - 1) \o SubSeq(@, i + 1, Len(@)),
              !.calls = r.calls,
              !.last  = [op |-> "drop", hr |-> 0, ptr |-> com.held[i], tag |-> "none"]])

ComNext ==
    \/ ComRunF
    \/ ComCreateWith
    \/ ComDrop

SpecComPtr == CopyInit /\ [][ComNext]_vars

------------------------------------------------------------------------------
(* backend/dx11 update_buffer and update_texture.  Both map the destination,
   copy data through the mapped pointer and unmap, and look at Map's HRESULT
   only afterwards.  `sub` is zeroed before Map, so a failed Map leaves pData
   null; the copy through it is undefined behaviour, modelled as either of
   the outcomes a build can show: the process dies, or execution goes on. *)

UpdateFunctions == {"update_buffer", "update_texture"}

\* data.len()
DataLens == {0, 1, 4}

\* offset_bytes of update_buffer
ByteOffsets == {0, 2}

\* xoffset + yoffset + zoffset of the texture region
RegionOffsets == {0, 1}

\* texture_subres(tex.cube_face, &tex.info)
Subresources == {0, 1}

UpdStep(u) == upd' = u /\ UNCHANGED <<instVars, rb, exVars, api, d3d, com, cm>>

\* The call: update_texture asserts that the whole texture is covered.
UpdStart ==
    /\ upd.pc = "idle"
    /\ \E fn \in UpdateFunctions, len \in DataLens, off \in ByteOffsets,
          offsets \in RegionOffsets, subres \in Subresources :
         /\ fn = "update_buffer" => offsets = 0 /\ subres = 0
         /\ fn = "update_texture" => off = 0
         /\ UpdStep([upd EXCEPT
               !.pc = IF fn = "update_texture" /\ offsets # 0 THEN "panicked" ELSE "map",
               !.fn = fn, !.len = len, !.offset_bytes = off, !.offsets = offsets,
               !.subres = subres])

\* (*context).Map(dst_resource, subres, map_type, 0, &mut sub)
UpdMap ==
    /\ upd.pc = "map"
    /\ \E hr \in HRESULTS :
         UpdStep([upd EXCEPT
            !.pc    = "copy",
            !.hr    = hr,
            !.pData = IF SUCCEEDED(hr) THEN "memory" ELSE "null",
            !.calls = Append(@, D3dCall("Map", "dst_resource", upd.subres))])

\* ptr::copy_nonoverlapping(data.as_ptr(), dst, data.len()) with dst derived
\* from sub.pData, whatever Map returned.
copy_through(u, outcome) ==
    [u EXCEPT
        !.pc     = IF u.pData = "null" /\ outcome = "dies" THEN "crashed" ELSE "unmap",
        !.writes = Append(@, [base |-> u.pData, at |-> u.offset_bytes, len |-> u.len])]

UpdCopy ==
    /\ upd.pc = "copy"
    /\ \E outcome \in {"dies", "goes on"} : UpdStep(copy_through(upd, outcome))

\* (*context).Unmap(dst_resource, 0)
UpdUnmap ==
    /\ upd.pc = "unmap"
    /\ UpdStep([upd EXCEPT !.pc = "check",
                           !.calls = Append(@, D3dCall("Unmap", "dst_resource", 0))])

\* if !SUCCEEDED(hr) { error!(...) }
UpdCheck ==
    /\ upd.pc = "check"
    /\ UpdStep([upd EXCEPT
          !.pc = "done",
          !.errors = IF SUCCEEDED(upd.hr) THEN @
                     ELSE Append(@, [message |-> "failed to map", hr |-> upd.hr])])

UpdNext ==
    \/ UpdStart
    \/ UpdMap
    \/ UpdCopy
    \/ UpdUnmap
    \/ UpdCheck

SpecUpdate == CopyInit /\ [][UpdNext]_vars

------------------------------------------------------------------------------
(* Two setter calls on one Instance, applied in both orders and repeated. *)

\* An Instance with all four packed fields set to non-zero values.
FilledInstance ==
    set_flags(
        set_instance_shader_binding_table_record_offset(
            set_mask(
                set_instance_custom_index(Instance_new(4096), FromNat(11259375)).self,
                165).self,
            FromNat(Pow2(24) - 1)).self,
        {TRIANGLE_FRONT_COUNTERCLOCKWISE, FORCE_NO_OPAQUE}).self

BaseInstances == {Instance_new(0), FilledInstance}

\* The setter calls with in-range arguments.
SetterCalls ==
    {[op |-> "set_instance_custom_index", arg |-> n] : n \in {m \in U32Args : Lt(m, Limit24)}}
        \cup {[op |-> "set_mask", arg |-> m] : m \in U8Args}
        \cup {[op |-> "set_instance_shader_binding_table_record_offset", arg |-> n] :
                 n \in {m \in U32Args : Lt(m, Limit24)}}
        \cup {[op |-> "set_flags", arg |-> f] : f \in FlagArgs}

\* self.<setter>(arg)
ApplySetter(c, self) ==
    CASE c.op = "set_instance_custom_index" -> set_instance_custom_index(self, c.arg).self
      [] c.op = "set_mask" -> set_mask(self, c.arg).self
      [] c.op = "set_instance_shader_binding_table_record_offset" ->
             set_instance_shader_binding_table_record_offset(self, c.arg).self
      [] c.op = "set_flags" -> set_flags(self, c.arg).self

CmStep(c) == cm' = c /\ UNCHANGED <<instVars, rb, exVars, api, d3d, com, upd>>

\* An Instance and two setter calls are chosen.
CmChoose ==
    /\ cm.pc = "idle"
    /\ \E base \in BaseInstances, first \in SetterCalls, second \in SetterCalls :
         CmStep([cm EXCEPT !.pc = "chosen", !.base = base, !.first = first,
                           !.second = second])

\* first then second, second then first, first alone and first twice.
CmApply ==
    /\ cm.pc = "chosen"
    /\ CmStep([cm EXCEPT
          !.pc    = "done",
          !.ab    = ApplySetter(cm.second, ApplySetter(cm.first, cm.base)),
          !.ba    = ApplySetter(cm.first, ApplySetter(cm.second, cm.base)),
          !.once  = ApplySetter(cm.first, cm.base),
          !.twice = ApplySetter(cm.first, ApplySetter(cm.first, cm.base))])

CmNext ==
    \/ CmChoose
    \/ CmApply

SpecCommute == CopyInit /\ [][CmNext]_vars

------------------------------------------------------------------------------
(* Properties of the Instance record. *)

IsSetter24(op) ==
    op \in {"set_instance_custom_index", "set_instance_shader_binding_table_record_offset"}

\* C1: for every i < 2^24, set_instance_custom_index(i) is accepted and the
\* Debug decode ((word & 0xFFFFFF00) >> 8) of the first word then yields
\* exactly i; likewise set_instance_shader_binding_table_record_offset(i) and
\* the decode of the second word.
C1_RoundTrip24 ==
    (IsSetter24(call.op) /\ Lt(call.arg, Limit24)) =>
        /\ call.outcome = "ok"
        /\ call.op = "set_instance_custom_index" =>
               debug_instance_custom_index(inst) = call.arg
        /\ call.op = "set_instance_shader_binding_table_record_offset" =>
               debug_instance_shader_binding_table_record_offset(inst) = call.arg

\* C1 witness: the largest 24-bit index was written over a non-zero mask and
\* over an earlier index, and the largest offset is in the second word.
C1_Witness ==
    /\ call.op = "set_instance_custom_index"
    /\ call.arg = FromNat(Pow2(24) - 1)
    /\ call.outcome = "ok"
    /\ debug_mask(inst) = FromNat(165)
    /\ debug_instance_custom_index(inst) = FromNat(Pow2(24) - 1)
    /\ debug_instance_shader_binding_table_record_offset(inst) = FromNat(11259375)

\* C2: every argument n >= 2^24 of the two 24-bit setters fails the
\* precondition check (the call panics).
C2_RejectsFrom2Pow24 ==
    (IsSetter24(call.op) /\ ~Lt(call.arg, Limit24)) => call.outcome = "panic"

\* C3: a setter never changes the decoded value of the other field packed
\* into the same word, for in-range arguments.
C3_NeighbourFieldKept ==
    [][ /\ call'.op = "set_mask" =>
             debug_instance_custom_index(inst') = debug_instance_custom_index(inst)
        /\ (call'.op = "set_instance_custom_index" /\ Lt(call'.arg, Limit24)) =>
             debug_mask(inst') = debug_mask(inst)
        /\ call'.op = "set_flags" =>
             debug_instance_shader_binding_table_record_offset(inst')
                 = debug_instance_shader_binding_table_record_offset(inst)
        /\ (call'.op = "set_instance_shader_binding_table_record_offset"
                /\ Lt(call'.arg, Limit24)) =>
             debug_flags_bits(inst') = debug_flags_bits(inst) ]_vars

\* C3 witness: set_mask has just replaced a non-zero mask by another one while
\* the custom index holds a full 24-bit pattern, and the second word holds
\* both a non-zero offset and non-zero flags.
C3_Witness ==
    /\ call.op = "set_mask"
    /\ call.arg = FromNat(255)
    /\ debug_mask(inst) = FromNat(255)
    /\ debug_instance_custom_index(inst) = FromNat(11259375)
    /\ debug_instance_shader_binding_table_record_offset(inst) = FromNat(Pow2(24) - 1)
    /\ debug_flags_bits(inst) = FromNat(9)

\* C4: replace_bits(destination, new_bits, mask) equals
\* (destination AND NOT mask) OR (new_bits AND mask): every bit inside the
\* mask comes from new_bits, every bit outside it from destination.
C4_ReplaceBitsSelects ==
    rb.done =>
        /\ rb.out = BitOr(BitAnd(rb.destination, BitNot(rb.new_bits_mask)),
                          BitAnd(rb.new_bits, rb.new_bits_mask))
        /\ \A i \in Bit :
               rb.out[i] = IF rb.new_bits_mask[i] THEN rb.new_bits[i] ELSE rb.destination[i]

\* C4 witness: replace_bits has run on an irregular mask, and its result is
\* neither of its two data arguments.
C4_Witness ==
    /\ rb.done
    /\ rb.new_bits_mask = Sample(1)
    /\ rb.destination = AllOnes32
    /\ rb.new_bits = FromNat(11259375)
    /\ rb.out \notin {rb.destination, rb.new_bits}

\* C5: after any sequence of setter calls with in-range arguments the first
\* word is (last custom index << 8) | last mask and the second word is
\* (last SBT record offset << 8) | last flags; a field never set counts as 0.
C5_PackedLayout ==
    hist.in_range =>
        /\ inst.instance_custom_index_24_and_mask_8
               = BitOr(Shl(hist.custom_index, 8), hist.mask)
        /\ inst.instance_shader_binding_table_record_offset_24_and_flags_8
               = BitOr(Shl(hist.offset, 8), hist.flags)

\* C5 witness: all four fields were set to non-zero in-range values.
C5_Witness ==
    /\ hist.in_range
    /\ hist.custom_index = FromNat(11259375)
    /\ hist.mask = FromNat(165)
    /\ hist.offset = FromNat(Pow2(24) - 1)
    /\ hist.flags = FromNat(15)
    /\ call.op = "set_flags"

\* C6: Instance::new(addr) yields the identity transform, zero custom index,
\* mask, SBT record offset and flags (both packed words 0), and
\* acceleration_structure_reference = addr.
C6_NewIsIdentityAndZero ==
    call.op = "new" =>
        /\ inst.transform = << <<1, 0, 0, 0>>, <<0, 1, 0, 0>>, <<0, 0, 1, 0>> >>
        /\ inst.instance_custom_index_24_and_mask_8 = Zero32
        /\ inst.instance_shader_binding_table_record_offset_24_and_flags_8 = Zero32
        /\ debug_instance_custom_index(inst) = Zero32
        /\ debug_mask(inst) = Zero32
        /\ debug_instance_shader_binding_table_record_offset(inst) = Zero32
        /\ debug_flags_bits(inst) = Zero32
        /\ inst.acceleration_structure_reference = call.addr

\* C6 witness: an Instance was constructed for a non-zero device address.
C6_Witness ==
    /\ call.op = "new"
    /\ call.addr = 4096
    /\ inst.acceleration_structure_reference = 4096

------------------------------------------------------------------------------
(* Properties of the struct layouts and of the ray-tracing example. *)

\* C7: TransformMatrix is 48 bytes, AabbPositions 24 and Instance 64 (a
\* 48-byte transform, two 4-byte words and an 8-byte device address, without
\* padding); an array of 2 of each is exactly twice as large; the example
\* uploads its instances with that stride.
C7_StructSizes ==
    /\ SizeOf(TransformMatrix) = 48
    /\ SizeOf(Array(TransformMatrix, 2)) = 96
    /\ SizeOf(AabbPositions) = 24
    /\ SizeOf(Array(AabbPositions, 2)) = 48
    /\ SizeOf(Instance) = 64
    /\ SizeOf(Array(Instance, 2)) = 128
    /\ SizeOf(Instance) = SizeOf(TransformMatrix) + 2 * SizeOf(U32) + SizeOf(DeviceAddress)
    /\ \A i \in 1 .. Len(buffers) :
           buffers[i].name = "instances_buffer" => buffers[i].len = 64 * Len(locals.instances)

\* C7 witness: the one-element instance array has been uploaded as 64 bytes.
C7_Witness ==
    /\ Len(locals.instances) = 1
    /\ \E i \in 1 .. Len(buffers) :
           buffers[i].name = "instances_buffer" /\ buffers[i].len = 64

\* C8: create_empty_buffer with size > 0 does not panic and creates a buffer,
\* and binds memory, whose size is the smallest multiple of
\* non_coherent_alignment that is >= size; a size that is already a multiple
\* is kept.
C8_PaddedToAlignment ==
    LET a == limits.non_coherent_atom_size IN
    /\ \A i \in 1 .. Len(buffers) :
           LET b == buffers[i] IN
           /\ b.len > 0
           /\ b.buffer.size % a = 0
           /\ b.buffer.size >= b.len
           /\ b.buffer.size - b.len < a
           /\ b.len % a = 0 => b.buffer.size = b.len
           /\ b.memory.size = b.buffer.size
    /\ \A i \in 1 .. Len(log) : log[i].op = "panic" => log[i].n = 0

\* C8 witness: alignment 256 and size 100 gave a 256-byte buffer and memory,
\* and another buffer of the same run was already a multiple.
C8_Witness ==
    /\ limits.non_coherent_atom_size = 256
    /\ \E i \in 1 .. Len(buffers) :
           /\ buffers[i].len = 100
           /\ buffers[i].buffer.size = 256
           /\ buffers[i].memory.size = 256
    /\ \E i \in 1 .. Len(buffers) :
           /\ buffers[i].len = 256
           /\ buffers[i].buffer.size = 256

\* The position in the log of the first call of `op` on `obj`, 0 if none.
FirstCall(op, obj) ==
    LET at == {i \in 1 .. Len(log) : log[i].op = op /\ log[i].obj = obj}
    IN IF at = {} THEN 0 ELSE CHOOSE i \in at : \A j \in at : i <= j

\* The same for the call that concerns command buffer number n.
FirstCallOn(op, obj, n) ==
    LET at == {i \in 1 .. Len(log) : log[i].op = op /\ log[i].obj = obj /\ log[i].n = n}
    IN IF at = {} THEN 0 ELSE CHOOSE i \in at : \A j \in at : i <= j

\* The steps of the BLAS compaction, in the order the claim gives them.
CompactionSteps ==
    << FirstCall("build_acceleration_structures", "teapot_blas"),
       FirstCallOn("pipeline_barrier", "AllBuffers", 1),
       FirstCallOn("write_acceleration_structures_properties", "compacted_size_pool", 1),
       FirstCallOn("submit", "cmd_buffer", 1),
       FirstCallOn("wait_for_fence", "build_fence", 1),
       FirstCall("get_query_pool_results", "compacted_size_pool"),
       FirstCall("create_empty_buffer", "accel_struct_bottom_buffer_compact"),
       FirstCall("create_acceleration_structure", "teapot_blas_compact"),
       FirstCall("copy_acceleration_structure", "teapot_blas_compact"),
       FirstCallOn("submit", "cmd_buffer", 2),
       FirstCallOn("wait_for_fence", "build_fence", 2),
       FirstCall("mem_replace", "teapot_blas") >>

AllCommands ==
    {cmds[b].commands[k] : <<b, k>> \in
         {<<b, k>> \in (1 .. Len(cmds)) \X (1 .. 8) : k <= Len(cmds[b].commands)}}

\* C9: the BLAS compaction steps happen strictly in this order: build
\* recorded, barrier recorded, compacted-size query write recorded, command
\* buffer submitted, its fence waited on, compacted size read, buffer of that
\* size allocated, new structure created, CopyMode::Compact copy recorded,
\* submitted, its fence waited on, handles swapped.
C9_CompactionOrder ==
    /\ LET steps == CompactionSteps IN
       \A k \in 1 .. (Len(steps) - 1) :
           steps[k + 1] # 0 => (steps[k] # 0 /\ steps[k] < steps[k + 1])
    /\ \A c \in AllCommands :
           c.cmd = "copy_acceleration_structure" =>
               /\ c.what = "Compact"
               /\ accels[c.src].name = "teapot"
               /\ accels[c.dst].name = "teapot_compact"
               /\ accels[c.dst].size = locals.teapot_blas_compacted_size
    /\ \A i \in 1 .. Len(buffers) :
           buffers[i].name = "accel_struct_bottom_buffer_compact" =>
               buffers[i].len = locals.teapot_blas_compacted_size

\* C9 witness: the example ran to its end and the handles were swapped after
\* the compacting copy had completed.
C9_Witness ==
    /\ pc = "done"
    /\ CompactionSteps[Len(CompactionSteps)] # 0
    /\ cmds[2].state = "complete"
    /\ accels[locals.teapot_blas.accel_struct].name = "teapot_compact"

Consumes(c, handle) ==
    /\ c.cmd \in {"write_acceleration_structures_properties", "copy_acceleration_structure",
                  "build_acceleration_structures"}
    /\ c.src = handle

CountIn(seq, P(_)) == Cardinality({i \in 1 .. Len(seq) : P(seq[i])})

IsBarrierCommand(c) == c.cmd = "pipeline_barrier"

IsBarrierCall(e) == e.op = "pipeline_barrier"

RECURSIVE BarriersRecorded(_)
BarriersRecorded(b) ==
    IF b = 0 THEN 0 ELSE CountIn(cmds[b].commands, IsBarrierCommand) + BarriersRecorded(b - 1)

\* C10: in every command buffer, between a build that writes a structure and
\* any later command of that buffer that consumes the structure, a
\* pipeline_barrier ACCELERATION_STRUCTURE_WRITE..ACCELERATION_STRUCTURE_READ
\* is recorded; the only barriers in the buffers are those the example
\* recorded itself.
C10_BarrierBeforeConsumer ==
    /\ \A b \in 1 .. Len(cmds) :
           LET cs == cmds[b].commands IN
           \A i \in 1 .. Len(cs), j \in 1 .. Len(cs) :
               (i < j /\ cs[i].cmd = "build_acceleration_structures"
                      /\ Consumes(cs[j], cs[i].dst)) =>
                   \E k \in (i + 1) .. (j - 1) :
                       /\ cs[k].cmd = "pipeline_barrier"
                       /\ cs[k].what = "ACCELERATION_STRUCTURE_WRITE..ACCELERATION_STRUCTURE_READ"
    /\ BarriersRecorded(Len(cmds)) = CountIn(log, IsBarrierCall)

\* C10 witness: the BLAS and the TLAS command buffers have completed, each
\* holding a build, then the barrier, then the two property writes of the
\* structure just built.
C10_Witness ==
    /\ Len(cmds) = 3
    /\ \A b \in {1, 3} :
           /\ cmds[b].state = "complete"
           /\ Len(cmds[b].commands) = 4
           /\ cmds[b].commands[1].cmd = "build_acceleration_structures"
           /\ cmds[b].commands[2].cmd = "pipeline_barrier"
           /\ Consumes(cmds[b].commands[3], cmds[b].commands[1].dst)
           /\ Consumes(cmds[b].commands[4], cmds[b].commands[1].dst)

\* The answer of the size query made for the GeometryDesc called `name`.
RequirementsNamed(name) ==
    IF name = "geometry_desc" THEN locals.teapot_blas_requirements ELSE locals.tlas_requirements

BuildCommands == {c \in AllCommands : c.cmd = "build_acceleration_structures"}

\* C11: for every acceleration structure the example creates and builds, the
\* backing buffer holds at least CreateDesc.size bytes and the scratch buffer
\* at least the build_scratch_size reported by the size query made for that
\* same GeometryDesc (for the compaction target, the compacted size of its
\* source).
C11_BuffersSizedByOwnQuery ==
    /\ \A h \in 1 .. Len(accels) :
           BufferNamed(accels[h].buffer).buffer.size >= accels[h].buffer_offset + accels[h].size
    /\ \A c \in BuildCommands :
           /\ BufferNamed(c.scratch).buffer.size >= RequirementsNamed(c.what).build_scratch_size
           /\ BufferNamed(accels[c.dst].buffer).len =
                  RequirementsNamed(c.what).acceleration_structure_size

\* C12: the Instance uploaded for the TLAS build holds the device address of
\* the compacted BLAS; the address is queried only after the compacting copy
\* has completed and the handles have been swapped, never from the original
\* BLAS.
C12_InstanceRefersToCompacted ==
    /\ \A i \in 1 .. Len(log) :
           log[i].op = "get_acceleration_structure_address" =>
               /\ accels[log[i].n].name = "teapot_compact"
               /\ accels[log[i].n].state = "built"
               /\ \E j \in 1 .. (i - 1) : log[j].op = "mem_replace"
               /\ \E j \in 1 .. (i - 1) : log[j].op = "wait_for_fence" /\ log[j].n = 2
    /\ \A k \in 1 .. Len(locals.instances) :
           /\ \E h \in 1 .. Len(accels) :
                  /\ accels[h].name = "teapot_compact"
                  /\ locals.instances[k].acceleration_structure_reference =
                         get_acceleration_structure_address(h)
           /\ \A h \in 1 .. Len(accels) :
                  accels[h].name = "teapot" =>
                      locals.instances[k].acceleration_structure_reference #
                          get_acceleration_structure_address(h)

\* C12 witness: the instance array has been uploaded and its one record
\* refers to the compacted structure, which the completed copy has filled.
C12_Witness ==
    /\ \E i \in 1 .. Len(buffers) : buffers[i].name = "instances_buffer"
    /\ Len(locals.instances) = 1
    /\ accels[2].name = "teapot_compact"
    /\ accels[2].contents = "geometry_desc"
    /\ locals.instances[1].acceleration_structure_reference =
           get_acceleration_structure_address(2)

\* C13: when a structure is replaced by its compacted copy, the old handle is
\* destroyed explicitly, and only after the copy's command buffer has been
\* submitted and its fence wait has returned.
C13_OldHandleDestroyed ==
    /\ \A h \in 1 .. Len(accels) : accels[h].dropped => accels[h].destroyed
    /\ \A i \in 1 .. Len(log) :
           log[i].op = "destroy_acceleration_structure" =>
               \E j \in 1 .. (i - 1) : log[j].op = "wait_for_fence" /\ log[j].n = 2

\* C14: every recorded build pairs its BuildDesc with as many BuildRangeDesc
\* entries as its GeometryDesc has geometries, and every size query passes one
\* maximum primitive count per geometry.
C14_OneRangePerGeometry ==
    /\ \A c \in BuildCommands : c.n = Len(GeometryDescNamed(c.what).geometries)
    /\ \A i \in 1 .. Len(log) :
           log[i].op = "get_acceleration_structure_build_requirements" =>
               log[i].n = Len(GeometryDescNamed(log[i].obj).geometries)

\* C14 witness: both size queries have been made and both builds recorded,
\* each with one geometry.
C14_Witness ==
    /\ Cardinality(BuildCommands) = 2
    /\ \A c \in BuildCommands : c.n = 1
    /\ Cardinality({i \in 1 .. Len(log) :
                       log[i].op = "get_acceleration_structure_build_requirements"}) = 2

\* The GeometryDescs the example has passed to a size query or a build so far.
DescsUsed ==
    {GeometryDescNamed(c.what) : c \in BuildCommands}
        \cup {GeometryDescNamed(log[i].obj) :
                 i \in {j \in 1 .. Len(log) :
                           log[j].op = "get_acceleration_structure_build_requirements"}}

\* C15: every GeometryDesc used in a size query or a build has all its
\* geometries of one GeometryData variant, only Instances when its type is
\* TopLevel and only Triangles or Aabbs when it is BottomLevel.
C15_GeometryVariants ==
    \A desc \in DescsUsed :
        /\ \A i \in 1 .. Len(desc.geometries), j \in 1 .. Len(desc.geometries) :
               desc.geometries[i].variant = desc.geometries[j].variant
        /\ desc.ty = "TopLevel" =>
               \A i \in 1 .. Len(desc.geometries) : desc.geometries[i].variant = "Instances"
        /\ desc.ty = "BottomLevel" =>
               \A i \in 1 .. Len(desc.geometries) :
                   desc.geometries[i].variant \in {"Triangles", "Aabbs"}

\* C15 witness: a bottom-level description of triangles and a top-level
\* description of instances have both been used.
C15_Witness ==
    /\ \E desc \in DescsUsed :
           desc.ty = "BottomLevel" /\ desc.geometries[1].variant = "Triangles"
    /\ \E desc \in DescsUsed :
           desc.ty = "TopLevel" /\ desc.geometries[1].variant = "Instances"

\* C17: no build targets a Generic-typed structure: the destination of every
\* build was created as TopLevel or BottomLevel, the type of the GeometryDesc
\* built into it.
C17_NoGenericDestination ==
    \A c \in BuildCommands :
        /\ accels[c.dst].ty \in {"TopLevel", "BottomLevel"}
        /\ accels[c.dst].ty = GeometryDescNamed(c.what).ty

\* C17 witness: a bottom-level and a top-level build have been recorded and run.
C17_Witness ==
    /\ \E c \in BuildCommands : accels[c.dst].ty = "BottomLevel" /\ accels[c.dst].state = "built"
    /\ \E c \in BuildCommands : accels[c.dst].ty = "TopLevel" /\ accels[c.dst].state = "built"

\* A call at the boundary passed a GeometryDesc and one list of counts or ranges.
TakesGeometry ==
    api.op \in {"get_acceleration_structure_build_requirements", "build_acceleration_structures"}

MixedVariants(desc) ==
    \E i \in 1 .. Len(desc.geometries), j \in 1 .. Len(desc.geometries) :
        desc.geometries[i].variant # desc.geometries[j].variant

VariantNotAllowed(desc) ==
    \E i \in 1 .. Len(desc.geometries) :
        \/ desc.ty = "TopLevel" /\ desc.geometries[i].variant # "Instances"
        \/ desc.ty = "BottomLevel" /\ desc.geometries[i].variant = "Instances"

C19_ZeroSizeRejected ==
    (api.op = "create_buffer" /\ api.size = 0) => api.outcome = "error"

------------------------------------------------------------------------------
(* Properties of backend/dx11. *)

CallsOf(fn, on) == {i \in 1 .. Len(d3d.calls) : d3d.calls[i].fn = fn /\ d3d.calls[i].on = on}

\* The failure was logged once, with its failing HRESULT, the helper has
\* returned, and the failed call is the last one made but for the releases.
LoggedAndReturned ==
    /\ d3d.pc = "done"
    /\ Len(d3d.errors) = 1
    /\ d3d.errors[1].message = d3d.failure
    /\ ~SUCCEEDED(d3d.errors[1].hr)
    /\ \E i \in 1 .. Len(d3d.calls) :
           /\ d3d.calls[i].fn \in {"CreateTexture2D", "Map", "CreateBuffer"}
           /\ d3d.calls[i].arg = d3d.errors[1].hr
           /\ \A j \in (i + 1) .. Len(d3d.calls) : d3d.calls[j].fn = "Release"

\* C20 as stated: when mapping the staging texture, or creating the staging
\* texture or the staging buffer, fails, the failure is logged and the helper
\* returns early; no bytes are read from the mapping, no Unmap is issued for
\* a failed Map, and the destination buffer receives no CopySubresourceRegion.
C20_FailureReadsNothing ==
    d3d.failure # "none" =>
        /\ LoggedAndReturned
        /\ d3d.bytes_read = 0
        /\ d3d.failure = "Failed to map staging texture" => CallsOf("Unmap", "staging_texture") = {}
        /\ CallsOf("CopySubresourceRegion", "dst") = {}

\* C20 amended: on any of the three failures the failure is logged, the helper
\* returns early and the destination buffer receives no CopySubresourceRegion;
\* after a failed Map no Unmap is issued; no bytes are read when the staging
\* texture creation or the Map fails, whereas a failed staging-buffer creation
\* comes after the bytes were read and the mapping unmapped.
C20_FailureStopsTheCopy ==
    d3d.failure # "none" =>
        /\ LoggedAndReturned
        /\ CallsOf("CopySubresourceRegion", "dst") = {}
        /\ d3d.failure = "Failed to map staging texture" =>
               CallsOf("Unmap", "staging_texture") = {} /\ d3d.bytes_read = 0
        /\ d3d.failure = "create staging texture" =>
               CallsOf("Map", "staging_texture") = {} /\ d3d.bytes_read = 0
        /\ d3d.failure = "create staging buffer" =>
               /\ d3d.bytes_read = buffer_len_of(d3d.src)
               /\ Cardinality(CallsOf("Unmap", "staging_texture")) = 1

\* C20 witness: Map failed with E_FAIL after the copy into the staging
\* texture, and the helper has returned.
C20_Witness ==
    /\ d3d.pc = "done"
    /\ d3d.failure = "Failed to map staging texture"
    /\ d3d.errors[1].hr = -2147467259
    /\ CallsOf("CopySubresourceRegion", "staging_texture") # {}
    /\ CallsOf("Release", "staging_texture") # {}

------------------------------------------------------------------------------
(* Properties of ComPtr. *)

\* The step that finishes a create_with call whose creation function returned hr.
CreateWithReturns == com.last.op = "f" /\ com'.last.op = "create_with"

\* C21: when the creation function returns a failing HRESULT, create_with
\* returns Err with exactly that HRESULT, constructs no ComPtr and issues no
\* Release: the ComPtrs alive and every reference count stay as they were.
C21_FailureReturnsErr ==
    [][(CreateWithReturns /\ ~SUCCEEDED(com.last.hr)) =>
         /\ com'.last.tag = "Err"
         /\ com'.last.hr = com.last.hr
         /\ com'.held = com.held
         /\ com'.refs = com.refs
         /\ com'.calls = << >>]_vars

\* E_FAIL came back as Err(E_FAIL) although the creation function had set the
\* out-pointer, with another ComPtr alive and untouched.
C21_Witness ==
    /\ com.last.op = "create_with"
    /\ com.last.tag = "Err"
    /\ com.last.hr = -2147467259
    /\ com.held = <<"foo">>
    /\ com.refs["foo"] = 1

\* C22: when the creation function succeeds with a non-null pointer,
\* create_with returns Ok holding exactly that pointer and makes no AddRef or
\* Release call, so the reference count stays what the creation function
\* left; dropping a ComPtr calls Release on its object exactly once.
C22_SuccessWrapsAndDropReleasesOnce ==
    [][/\ (CreateWithReturns /\ SUCCEEDED(com.last.hr) /\ com.last.ptr # "null") =>
            /\ com'.last.tag = "Ok"
            /\ com'.last.ptr = com.last.ptr
            /\ com'.held = Append(com.held, com.last.ptr)
            /\ com'.refs = com.refs
            /\ com'.calls = << >>
       /\ (com.last.op # "f" /\ com'.last.op = "drop") =>
            /\ com'.calls = <<D3dCall("Release", com'.last.ptr, 0)>>
            /\ com'.refs = [com.refs EXCEPT ![com'.last.ptr] = @ - 1]
            /\ Len(com'.held) = Len(com.held) - 1]_vars

\* The only ComPtr to foo was dropped: one Release, the count back at zero.
C22_Witness ==
    /\ com.last.op = "drop"
    /\ com.last.ptr = "foo"
    /\ com.refs["foo"] = 0
    /\ com.calls = <<D3dCall("Release", "foo", 0)>>

\* C23: no ComPtr wraps a null pointer: a creation function that succeeds
\* and leaves the out-pointer null makes create_with panic.
C23_NeverWrapsNull ==
    /\ \A i \in 1 .. Len(com.held) : com.held[i] # "null"
    /\ (com.last.op = "create_with" /\ SUCCEEDED(com.last.hr) /\ com.last.ptr = "null") =>
         com.last.tag = "Panic"

\* S_OK and a null out-pointer: create_with panicked.
C23_Witness ==
    /\ com.last.op = "create_with"
    /\ com.last.tag = "Panic"
    /\ com.last.hr = 0
    /\ com.last.ptr = "null"

------------------------------------------------------------------------------
(* Properties of update_buffer and update_texture. *)

MapFailed == upd.pc \notin {"idle", "map", "panicked"} /\ ~SUCCEEDED(upd.hr)

UpdCallsOf(fn) == {i \in 1 .. Len(upd.calls) : upd.calls[i].fn = fn}

\* C24: update_buffer and update_texture write the bytes and call Unmap only
\* when Map succeeded; when Map fails nothing is written through the mapped
\* pointer, no Unmap is issued, and the failure is logged by the time the
\* function returns.
C24_WritesOnlyWhenMapped ==
    /\ MapFailed => upd.writes = << >> /\ UpdCallsOf("Unmap") = {}
    /\ (MapFailed /\ upd.pc = "done") => Len(upd.errors) = 1
    /\ (upd.pc = "done" /\ SUCCEEDED(upd.hr)) =>
         /\ Len(upd.writes) = 1 /\ upd.writes[1].base = "memory"
         /\ Cardinality(UpdCallsOf("Unmap")) = 1
         /\ upd.errors = << >>

------------------------------------------------------------------------------
(* Properties of copy_texture_to_buffer's resources. *)

CopyComPtrs == {"device", "immediate_context", "staging_texture", "staging_buffer"}

\* The positions in the call log where the ComPtr named n was acquired: the
\* getters always hand out an object, the creation functions when they succeed.
AcquisitionsOf(n) ==
    {i \in 1 .. Len(d3d.calls) :
        LET c == d3d.calls[i]
        IN CASE n = "device"            -> c.fn = "GetDevice"
             [] n = "immediate_context" -> c.fn = "GetImmediateContext"
             [] n = "staging_texture"   -> c.fn = "CreateTexture2D" /\ SUCCEEDED(c.arg)
             [] n = "staging_buffer"    -> c.fn = "CreateBuffer" /\ SUCCEEDED(c.arg)}

SuccessfulMaps ==
    {i \in CallsOf("Map", "staging_texture") : SUCCEEDED(d3d.calls[i].arg)}

\* C25: on every return of copy_texture_to_buffer (the normal one, a failed
\* staging-texture creation, a failed Map, a failed staging-buffer creation)
\* every ComPtr that was acquired has been released exactly once, after its
\* acquisition, and none that was not acquired has been released; a
\* successfully mapped staging texture has been unmapped exactly once, after
\* the Map and before the staging texture was released.  Until the function
\* leaves, no Release is issued.
C25_EveryComPtrReleasedOnce ==
    /\ d3d.pc \notin {"done", "panicked"} =>
         \A n \in CopyComPtrs : CallsOf("Release", n) = {}
    /\ d3d.pc = "done" =>
         /\ d3d.held = << >>
         /\ \A n \in CopyComPtrs :
               /\ Cardinality(CallsOf("Release", n)) = Cardinality(AcquisitionsOf(n))
               /\ Cardinality(AcquisitionsOf(n)) <= 1
               /\ \A a \in AcquisitionsOf(n), r \in CallsOf("Release", n) : a < r
         /\ Cardinality(CallsOf("Unmap", "staging_texture")) = Cardinality(SuccessfulMaps)
         /\ \A m \in SuccessfulMaps, u \in CallsOf("Unmap", "staging_texture"),
               r \in CallsOf("Release", "staging_texture") : m < u /\ u < r

\* The staging buffer could not be created: the function returned with the
\* staging texture unmapped and the three ComPtrs it held released.
C25_Witness ==
    /\ d3d.pc = "done"
    /\ d3d.failure = "create staging buffer"
    /\ Cardinality(CallsOf("Unmap", "staging_texture")) = 1
    /\ \A n \in CopyComPtrs \ {"staging_buffer"} : Cardinality(CallsOf("Release", n)) = 1
    /\ CallsOf("Release", "staging_buffer") = {}

------------------------------------------------------------------------------
(* Properties of the repacking loops. *)

\* C26: once the loops have run, data[((slice * height + row) * width + col)
\* * bytes_per_pixel + byte] holds the byte read at slice * DepthPitch + row *
\* RowPitch + col * bytes_per_pixel + byte of the mapping, for every slice,
\* row, col and byte in range; every index of [0, depth * height * width *
\* bytes_per_pixel) has been written exactly once and no other index has.
C26_RepackedTightly ==
    d3d.bytes_read > 0 =>
        LET src == d3d.src
            m == d3d.mapped
            bpp == src.bytes_per_pixel
            len == depth_of(src) * src.height * src.width * bpp
        IN /\ DOMAIN d3d.data = 1 .. len
           /\ \A slice \in 0 .. depth_of(src) - 1, row \in 0 .. src.height - 1,
                 col \in 0 .. src.width - 1, byte \in 0 .. bpp - 1 :
                 d3d.data[((slice * src.height + row) * src.width + col) * bpp + byte + 1]
                     = slice * m.DepthPitch + row * m.RowPitch + col * bpp + byte
           /\ \A k \in 0 .. len - 1 :
                 Cardinality({t \in 1 .. Len(d3d.writes) : d3d.writes[t] = k}) = 1
           /\ \A t \in 1 .. Len(d3d.writes) : d3d.writes[t] \in 0 .. len - 1

\* Two slices of two rows of two two-byte pixels, read from a mapping whose
\* rows and slices are padded.
C26_Witness ==
    /\ d3d.bytes_read = 16
    /\ d3d.src.depth = 2 /\ d3d.src.height = 2 /\ d3d.src.width = 2
    /\ d3d.mapped.RowPitch > d3d.src.width * d3d.src.bytes_per_pixel
    /\ d3d.mapped.DepthPitch > d3d.mapped.RowPitch * d3d.src.height
    /\ d3d.data[16] = d3d.mapped.DepthPitch + d3d.mapped.RowPitch + 3

------------------------------------------------------------------------------
(* Further properties of the Instance record. *)

Low24(n) == BitAnd(n, FromNat(Pow2(24) - 1))

\* C27: an argument n with 2^24 <= n < 2^25 of either 24-bit setter passes
\* the precondition check, the field then decodes to n mod 2^24, and the
\* 8-bit field of the same word is what it was before the call.
C27_AcceptedAbove24BitsStoresLow24 ==
    [][(IsSetter24(call'.op) /\ ~Lt(call'.arg, Limit24) /\ Lt(call'.arg, TwoShl24)) =>
         /\ call'.outcome = "ok"
         /\ call'.op = "set_instance_custom_index" =>
                /\ debug_instance_custom_index(inst') = Low24(call'.arg)
                /\ debug_mask(inst') = debug_mask(inst)
         /\ call'.op = "set_instance_shader_binding_table_record_offset" =>
                /\ debug_instance_shader_binding_table_record_offset(inst') = Low24(call'.arg)
                /\ debug_flags_bits(inst') = debug_flags_bits(inst)]_vars

\* 2^25 - 1 was accepted as an offset: the field holds 2^24 - 1 and the flags
\* set before are still there.
C27_Witness ==
    /\ call.op = "set_instance_shader_binding_table_record_offset"
    /\ call.arg = FromNat(Pow2(25) - 1)
    /\ call.outcome = "ok"
    /\ debug_instance_shader_binding_table_record_offset(inst) = FromNat(Pow2(24) - 1)
    /\ debug_flags_bits(inst) = FromNat(9)

\* C28: in every state reached from Instance::new through the four setters
\* the low 8 bits of the second word are the bits of an InstanceFlags value
\* (no bit outside 0x0F is set), so the from_bits(..).unwrap() of the Debug
\* implementation does not panic.
C28_FlagsAlwaysValid ==
    LET d == debug_flags(inst)
    IN /\ ~d.panicked
       /\ d.flags \in InstanceFlags
       /\ FromNat(bits(d.flags)) = debug_flags_bits(inst)

\* All four flags are set below an offset whose 24 bits are all ones.
C28_Witness ==
    /\ call.op = "set_flags"
    /\ debug_flags(inst).flags = InstanceFlagBits
    /\ debug_instance_shader_binding_table_record_offset(inst) = FromNat(Pow2(24) - 1)

IsSetter(op) == IsSetter24(op) \/ op \in {"set_mask", "set_flags"}

\* C30: no setter changes transform or acceleration_structure_reference; the
\* index and mask setters leave the second word as it was, the offset and
\* flags setters the first word.
C30_SettersTouchOnlyTheirWord ==
    [][IsSetter(call'.op) =>
         /\ inst'.transform = inst.transform
         /\ inst'.acceleration_structure_reference = inst.acceleration_structure_reference
         /\ call'.op \in {"set_instance_custom_index", "set_mask"} =>
                inst'.instance_shader_binding_table_record_offset_24_and_flags_8
                    = inst.instance_shader_binding_table_record_offset_24_and_flags_8
         /\ call'.op \in {"set_instance_shader_binding_table_record_offset", "set_flags"} =>
                inst'.instance_custom_index_24_and_mask_8
                    = inst.instance_custom_index_24_and_mask_8]_vars

\* set_mask has written 165 next to a non-zero index while the second word
\* holds an offset and flags and the reference is a non-zero address.
C30_Witness ==
    /\ call.op = "set_mask"
    /\ call.arg = FromNat(165)
    /\ inst.acceleration_structure_reference = 4096
    /\ inst.transform = identity
    /\ debug_instance_custom_index(inst) = FromNat(Pow2(24) - 1)
    /\ debug_instance_shader_binding_table_record_offset(inst) = FromNat(11259375)
    /\ debug_flags_bits(inst) = FromNat(4)

------------------------------------------------------------------------------
(* Order and repetition of setter calls. *)

Fields ==
    {"set_instance_custom_index", "set_mask",
     "set_instance_shader_binding_table_record_offset", "set_flags"}

\* The decoded value of the field the setter named op writes.
FieldOf(self, op) ==
    CASE op = "set_instance_custom_index" -> debug_instance_custom_index(self)
      [] op = "set_mask" -> debug_mask(self)
      [] op = "set_instance_shader_binding_table_record_offset" ->
             debug_instance_shader_binding_table_record_offset(self)
      [] op = "set_flags" -> debug_flags_bits(self)

\* The value a setter call writes, as the 32-bit pattern the decode yields.
ValueOf(c) ==
    CASE c.op = "set_mask" -> FromNat(c.arg)
      [] c.op = "set_flags" -> FromNat(bits(c.arg))
      [] OTHER -> c.arg

\* C29: after two in-range setter calls each field holds the last value
\* written to it (the value it had before when neither call wrote it) and
\* nothing else has changed, so the final state depends only on the last
\* value written to each field; two calls on different fields give the same
\* Instance in either order; a setter repeated with the same value gives the
\* Instance the first call gave.
C29_LastWriteWinsAndCommutes ==
    cm.pc = "done" =>
        /\ \A f \in Fields :
              FieldOf(cm.ab, f) = IF cm.second.op = f THEN ValueOf(cm.second)
                                  ELSE IF cm.first.op = f THEN ValueOf(cm.first)
                                  ELSE FieldOf(cm.base, f)
        /\ cm.ab.transform = cm.base.transform
        /\ cm.ab.acceleration_structure_reference = cm.base.acceleration_structure_reference
        /\ cm.first.op # cm.second.op => cm.ab = cm.ba
        /\ cm.twice = cm.once

\* A new index and new flags were written over an Instance whose four fields
\* were all set: both orders gave the same Instance, which differs from the
\* one before in both words.
C29_Witness ==
    /\ cm.pc = "done"
    /\ cm.base = FilledInstance
    /\ cm.first.op = "set_instance_custom_index"
    /\ cm.second.op = "set_flags"
    /\ cm.ab = cm.ba
    /\ debug_instance_custom_index(cm.ab) = FromNat(Pow2(24) - 1)
    /\ debug_flags_bits(cm.ab) = FromNat(4)
    /\ debug_mask(cm.ab) = FromNat(165)

==============================================================================
